---- MODULE Spec2Model ----
(***************************************************************************)
(* A model of the ch11_fullsimple interpreter: lexer, parser (de Bruijn    *)
(* indices, term stack), interned types, type checker and small-step       *)
(* evaluator, as implemented in src/ch11_fullsimple/interpreter.hpp.       *)
(***************************************************************************)
EXTENDS Integers, Sequences, FiniteSets, TLC

VARIABLES
    token_strings_,            \* Lexer::token_strings_
    current_token_,            \* Lexer::current_token_
    term_stack,                \* ParseProgram: std::vector<Term> term_stack
    stack_size_on_open_paren,  \* ParseProgram: std::vector<int>
    bound_variables,           \* ParseProgram: std::vector<std::string>
    balance_parens,            \* ParseProgram: int balance_parens
    pc,                        \* where the pipeline stands
    parsed,                    \* the term ParseProgram returned (kept for reference)
    program,                   \* the Term& handed to Interpret, rewritten in place
    steps,                     \* number of Eval1 calls that rewrote the program
    result,                    \* what Interpret returned
    first,                     \* the run before this one, when a second program is parsed
    lexer_calls,               \* history of the calls of NextToken and PutBackToken
    store,                     \* the evaluator's store: the value of each location
    store_log,                 \* history of the allocations, reads and writes
    function_pool,             \* Type::Function: static type_pool
    record_pool,               \* Type::Record: static type_pool
    calls                      \* history of the factory calls (arguments, instance)

vars == <<token_strings_, current_token_, term_stack, stack_size_on_open_paren,
          bound_variables, balance_parens, pc, parsed, program, steps, result,
          first, lexer_calls, store, store_log, function_pool, record_pool, calls>>

parser_vars == <<term_stack, stack_size_on_open_paren, bound_variables,
                 balance_parens>>
pool_vars == <<function_pool, record_pool, calls>>
history_vars == <<first, lexer_calls>>
store_vars == <<store, store_log>>
program_vars == <<token_strings_, current_token_, parser_vars, pc, parsed,
                  program, steps, result, history_vars, store_vars>>

(***************************************************************************)
(* Bounds of the model.                                                    *)
(***************************************************************************)
MaxChunks == 3       \* longest input built from arbitrary source chunks
MaxSize == 4         \* largest generated well-formed source term (AST nodes)
MaxSteps == 8        \* cap on the Eval1 calls of one Interpret
MaxPool == 2         \* cap on the size of each type pool
MaxCalls == 3        \* cap on the factory calls remembered
MaxFields == 1       \* longest field list handed to Type::Record
MaxSkeleton == 4     \* largest nameless term written out under every naming
MaxAtoms == 3        \* longest juxtaposition of atoms among the inputs
MaxArrows == 2       \* most arrows of a chain of type atoms among the inputs
MaxLexerInput == 2   \* longest input of the lexer alone, in source chunks
MaxLexerCalls == 5   \* cap on the lexer calls remembered
MaxStoreSteps == 20  \* cap on the steps of one evaluation with the store
MaxUpdates == 2      \* most assignments in sequence in a program with references

(***************************************************************************)
(* Characters.  A token string is a TLA+ string; the characters of the     *)
(* strings that are not keywords are given by this table (ASCII).          *)
(***************************************************************************)
Chars(s) ==
    CASE s = "x" -> <<120>>
      [] s = "y" -> <<121>>
      [] s = "f" -> <<102>>
      [] s = "z" -> <<122>>
      [] s = "a" -> <<97>>
      [] s = "b" -> <<98>>
      [] s = "A" -> <<65>>
      [] s = "_" -> <<95>>
      [] s = "xy" -> <<120, 121>>
      [] s = "-" -> <<45>>
      [] s = "<" -> <<60>>
      [] s = ">" -> <<62>>
      [] s = "#" -> <<35>>
      [] OTHER -> <<>>

IsAlpha(c) == (c >= 65 /\ c <= 90) \/ (c >= 97 /\ c <= 122)

ToLower(c) == IF c >= 65 /\ c <= 90 THEN c + 32 ELSE c

LowerA == 97

Underscore == 95

(***************************************************************************)
(* Lexer                                                                   *)
(***************************************************************************)
\* The table token_str_to_cat of NextToken ("NONE": the string is not in it).
TokenStrToCat(s) ==
    CASE s = "l" -> "LAMBDA"
      [] s = "true" -> "CONSTANT_TRUE"
      [] s = "false" -> "CONSTANT_FALSE"
      [] s = "Bool" -> "KEYWORD_BOOL"
      [] s = "if" -> "KEYWORD_IF"
      [] s = "then" -> "KEYWORD_THEN"
      [] s = "else" -> "KEYWORD_ELSE"
      [] s = "Nat" -> "KEYWORD_NAT"
      [] s = "succ" -> "KEYWORD_SUCC"
      [] s = "pred" -> "KEYWORD_PRED"
      [] s = "iszero" -> "KEYWORD_ISZERO"
      [] s = "." -> "DOT"
      [] s = "," -> "COMMA"
      [] s = "=" -> "EQUAL"
      [] s = "(" -> "OPEN_PAREN"
      [] s = ")" -> "CLOSE_PAREN"
      [] s = "{" -> "OPEN_BRACE"
      [] s = "}" -> "CLOSE_BRACE"
      [] s = ":" -> "COLON"
      [] s = "->" -> "ARROW"
      [] s = "0" -> "CONSTANT_ZERO"
      [] OTHER -> "NONE"

\* The loop of Lexer::IsIdentifierName over the characters of the text.
AllIdentifierChars(chars) ==
    \A i \in 1..Len(chars) : IsAlpha(chars[i]) \/ chars[i] = Underscore

IsIdentifierName(token_text) ==
    AllIdentifierChars(Chars(token_text)) /\ Chars(token_text) # <<>>

Token(category, text) ==
    [category |-> category, text |-> IF category = "IDENTIFIER" THEN text ELSE ""]

\* The token NextToken() makes of a token string, `cat` being its entry in
\* token_str_to_cat.
Classify(token_string, cat) ==
    IF cat # "NONE" THEN Token(cat, "")
    ELSE IF IsIdentifierName(token_string) THEN Token("IDENTIFIER", token_string)
    ELSE Token("MARKER_INVALID", "")

\* The token NextToken() returns when current_token_ = pos.
TokenAt(pos) ==
    IF pos = Len(token_strings_) THEN Token("MARKER_END", "")
    ELSE Classify(token_strings_[pos + 1], TokenStrToCat(token_strings_[pos + 1]))

\* current_token_ after NextToken() called at pos.
AfterNext(pos) == IF pos = Len(token_strings_) THEN pos ELSE pos + 1

\* current_token_ after PutBackToken() called at pos.
AfterPutBack(pos) == IF pos > 0 THEN pos - 1 ELSE pos

(***************************************************************************)
(* Types, as the values the private constructors build.  operator== is     *)
(* structural, and every comparison of types in the parser, the type       *)
(* checker and the interpreter goes through it.                            *)
(***************************************************************************)
TypeIllTyped == [category |-> "ILL"]

TypeBool == [category |-> "BASE", base_type |-> "BOOL"]

TypeNat == [category |-> "BASE", base_type |-> "NAT"]

TypeFunction(lhs, rhs) == [category |-> "FUNCTION", lhs |-> lhs, rhs |-> rhs]

TypeRecord(fields) == [category |-> "RECORD", record_fields |-> fields]

RECURSIVE TypeEq(_, _)
TypeEq(a, b) ==
    IF a.category # b.category THEN FALSE
    ELSE CASE a.category = "ILL" -> b.category = "ILL"
           [] a.category = "BASE" -> a.base_type = b.base_type
           [] a.category = "FUNCTION" ->
                TypeEq(a.lhs, b.lhs) /\ TypeEq(a.rhs, b.rhs)
           [] a.category = "RECORD" ->
                /\ Len(a.record_fields) = Len(b.record_fields)
                /\ \A i \in 1..Len(a.record_fields) :
                      /\ a.record_fields[i][1] = b.record_fields[i][1]
                      /\ TypeEq(a.record_fields[i][2], b.record_fields[i][2])

\* Type::IsIllTyped
IsIllTyped(t) == t.category = "BASE"

IsBool(t) == t.category = "BASE" /\ t.base_type = "BOOL"

IsNat(t) == t.category = "BASE" /\ t.base_type = "NAT"

IsFunction(t) == t.category = "FUNCTION"

IsRecord(t) == t.category = "RECORD"

(***************************************************************************)
(* The factories of Type and their pools.  An instance (a Type&) is named  *)
(* by the place it lives in: one of the three function-local statics, or   *)
(* an element of the type_pool of Type::Function or of Type::Record.  The  *)
(* objects of the pools hold pointers (instances), not values.             *)
(***************************************************************************)
Static(factory) == [pool |-> factory, at |-> 0]

Pooled(factory, at) == [pool |-> factory, at |-> at]

\* Every instance there is: the statics and the elements of the two pools.
Instances ==
    {Static("IllTyped"), Static("Bool"), Static("Nat")}
        \cup {Pooled("Function", i) : i \in 1..Len(function_pool)}
        \cup {Pooled("Record", i) : i \in 1..Len(record_pool)}

\* The object an instance is, its pointers followed: what operator== reads.
RECURSIVE Object(_)
Object(instance) ==
    CASE instance.pool = "IllTyped" -> TypeIllTyped
      [] instance.pool = "Bool" -> TypeBool
      [] instance.pool = "Nat" -> TypeNat
      [] instance.pool = "Function" ->
           TypeFunction(Object(function_pool[instance.at].lhs_),
                        Object(function_pool[instance.at].rhs_))
      [] instance.pool = "Record" ->
           TypeRecord([i \in 1..Len(record_pool[instance.at]) |->
                          <<record_pool[instance.at][i][1],
                            Object(record_pool[instance.at][i][2])>>])

\* Type::operator== on two instances
SameType(a, b) == TypeEq(Object(a), Object(b))

\* Type::Function, were its predicate to compare rhs_ with the address of lhs.
FunctionMatchesLhsTwice(type, lhs, rhs) == type.lhs_ = lhs /\ type.rhs_ = lhs

\* The predicate of find_if in Type::Function
FunctionMatches(type, lhs, rhs) == type.lhs_ = lhs /\ type.rhs_ = rhs

\* The predicate of find_if in Type::Record: operator== of two RecordFields
RecordMatches(record_fields_, fields) ==
    /\ Len(record_fields_) = Len(fields)
    /\ \A i \in 1..Len(fields) :
          /\ record_fields_[i][1] = fields[i][1]
          /\ SameType(record_fields_[i][2], fields[i][2])

\* std::find_if: the first position of the pool that matches, or 0 for end()
RECURSIVE FindIf(_, _, _)
FindIf(pool, Matches(_), i) ==
    IF i > Len(pool) THEN 0
    ELSE IF Matches(pool[i]) THEN i
    ELSE FindIf(pool, Matches, i + 1)

FunctionFind(lhs, rhs) ==
    LET Matches(type) == FunctionMatches(type, lhs, rhs) IN
    FindIf(function_pool, Matches, 1)

RecordFind(fields) ==
    LET Matches(type) == RecordMatches(type, fields) IN
    FindIf(record_pool, Matches, 1)

\* A call as the history remembers it.
Call(factory, args, instance) ==
    [factory |-> factory, args |-> args, instance |-> instance]

\* Type::IllTyped, Type::Bool, Type::Nat return their function-local static.
ReturnStatic(factory) ==
    /\ calls' = Append(calls, Call(factory, <<>>, Static(factory)))
    /\ UNCHANGED <<function_pool, record_pool>>
    /\ UNCHANGED program_vars

CallIllTyped ==
    /\ Len(calls) < MaxCalls
    /\ ReturnStatic("IllTyped")

CallBool ==
    /\ Len(calls) < MaxCalls
    /\ ReturnStatic("Bool")

CallNat ==
    /\ Len(calls) < MaxCalls
    /\ ReturnStatic("Nat")

\* Type::Function(lhs, rhs), the position find_if returned being `found`.
FunctionReturn(lhs, rhs, found) ==
    IF found # 0
      THEN /\ calls' = Append(calls, Call("Function", <<lhs, rhs>>,
                                          Pooled("Function", found)))
           /\ UNCHANGED <<function_pool, record_pool>>
      ELSE /\ Len(function_pool) < MaxPool
           /\ function_pool' = Append(function_pool, [lhs_ |-> lhs, rhs_ |-> rhs])
           /\ calls' = Append(calls, Call("Function", <<lhs, rhs>>,
                                          Pooled("Function", Len(function_pool) + 1)))
           /\ UNCHANGED record_pool

CallFunction(lhs, rhs) ==
    /\ Len(calls) < MaxCalls
    /\ UNCHANGED program_vars
    /\ FunctionReturn(lhs, rhs, FunctionFind(lhs, rhs))

\* Type::Record(fields), the position find_if returned being `found`.
RecordReturn(fields, found) ==
    IF found # 0
      THEN /\ calls' = Append(calls, Call("Record", fields, Pooled("Record", found)))
           /\ UNCHANGED <<function_pool, record_pool>>
      ELSE /\ Len(record_pool) < MaxPool
           /\ record_pool' = Append(record_pool, fields)
           /\ calls' = Append(calls, Call("Record", fields,
                                          Pooled("Record", Len(record_pool) + 1)))
           /\ UNCHANGED function_pool

CallRecord(fields) ==
    /\ Len(calls) < MaxCalls
    /\ UNCHANGED program_vars
    /\ RecordReturn(fields, RecordFind(fields))

(***************************************************************************)
(* Terms.  A Term is one variant at a time: the factories set one flag of  *)
(* a default-constructed Term, and every assignment replaces all fields.   *)
(* NullTerm is an empty std::unique_ptr<Term>; EmptyTerm is Term().        *)
(***************************************************************************)
NullTerm == [tag |-> "null"]

EmptyTerm == [tag |-> "empty"]

Lambda(arg_name, arg_type) ==
    [tag |-> "lambda", lambda_arg_name |-> arg_name, lambda_arg_type |-> arg_type,
     lambda_body |-> NullTerm, is_complete_lambda |-> FALSE]

Variable(var_name, de_bruijn_idx) ==
    [tag |-> "variable", variable_name |-> var_name, de_bruijn_idx |-> de_bruijn_idx]

Application(lhs, rhs) ==
    [tag |-> "application", application_lhs |-> lhs, application_rhs |-> rhs]

If == [tag |-> "if", if_condition |-> NullTerm, if_then |-> NullTerm,
       if_else |-> NullTerm]

True == [tag |-> "true"]

False == [tag |-> "false"]

Succ == [tag |-> "succ", unary_op_arg |-> NullTerm]

Pred == [tag |-> "pred", unary_op_arg |-> NullTerm]

IsZero == [tag |-> "iszero", unary_op_arg |-> NullTerm]

Zero == [tag |-> "zero"]

IsLambda(t) == t.tag = "lambda"

IsVariable(t) == t.tag = "variable"

IsApplication(t) == t.tag = "application"

IsIf(t) == t.tag = "if"

IsTrue(t) == t.tag = "true"

IsFalse(t) == t.tag = "false"

IsSucc(t) == t.tag = "succ"

IsPred(t) == t.tag = "pred"

IsIsZero(t) == t.tag = "iszero"

IsConstantZero(t) == t.tag = "zero"

IsNull(t) == t.tag = "null"

IsInvalid(t) ==
    CASE IsLambda(t) -> \/ t.lambda_arg_name = ""
                        \/ IsNull(t.lambda_body)
      [] IsVariable(t) -> t.variable_name = ""
      [] IsApplication(t) -> IsNull(t.application_lhs) \/ IsNull(t.application_rhs)
      [] IsIf(t) -> IsNull(t.if_condition) \/ IsNull(t.if_then) \/ IsNull(t.if_else)
      [] IsTrue(t) \/ IsFalse(t) \/ IsConstantZero(t) -> FALSE
      [] IsSucc(t) \/ IsPred(t) \/ IsIsZero(t) -> IsNull(t.unary_op_arg)
      [] OTHER -> TRUE

IsEmpty(t) ==
    /\ ~IsLambda(t) /\ ~IsVariable(t) /\ ~IsApplication(t) /\ ~IsIf(t)
    /\ ~IsSucc(t) /\ ~IsPred(t) /\ ~IsIsZero(t)

\* An exception leaving an operation that returns a Term.
Throw(what) == [tag |-> "throw", what |-> what]

IsThrow(t) == t.tag = "throw"

\* The lambda `this` with `body` for its body (a Throw stays a Throw).
WithBody(this, body) ==
    IF IsThrow(body) THEN body ELSE [this EXCEPT !.lambda_body = body]

\* Term::Combine: the term *this becomes (a Throw when it throws; *this is
\* then unchanged, every throw preceding the assignments).
RECURSIVE Combine(_, _)
Combine(this, term) ==
    IF IsInvalid(term) THEN Throw("invalid_argument")
    ELSE CASE IsLambda(this) ->
                IF ~IsNull(this.lambda_body)
                  THEN IF this.is_complete_lambda
                         THEN Application(this, term)
                         ELSE WithBody(this, Combine(this.lambda_body, term))
                  ELSE [this EXCEPT !.lambda_body = term]
           [] IsVariable(this) -> Application(this, term)
           [] IsApplication(this) -> Application(this, term)
           [] IsIf(this) ->
                IF IsNull(this.if_condition)
                  THEN [this EXCEPT !.if_condition = term]
                ELSE IF IsNull(this.if_then)
                  THEN [this EXCEPT !.if_then = term]
                ELSE IF IsNull(this.if_else)
                  THEN [this EXCEPT !.if_else = term]
                ELSE Application(this, term)
           [] IsSucc(this) \/ IsPred(this) \/ IsIsZero(this) ->
                IF IsNull(this.unary_op_arg)
                  THEN [this EXCEPT !.unary_op_arg = term]
                  ELSE Throw("invalid_argument")
           [] IsTrue(this) \/ IsFalse(this) \/ IsConstantZero(this) ->
                Throw("invalid_argument")
           [] OTHER -> term

\* Term::operator==
RECURSIVE TermEq(_, _)
TermEq(a, b) ==
    IF IsLambda(a) /\ IsLambda(b)
      THEN /\ TypeEq(a.lambda_arg_type, b.lambda_arg_type)
           /\ TermEq(a.lambda_body, b.lambda_body)
    ELSE IF IsVariable(a) /\ IsVariable(b)
      THEN a.de_bruijn_idx = b.de_bruijn_idx
    ELSE IF IsApplication(a) /\ IsApplication(b)
      THEN /\ TermEq(a.application_lhs, b.application_lhs)
           /\ TermEq(a.application_rhs, b.application_rhs)
    ELSE IF IsIf(a) /\ IsIf(b)
      THEN /\ TermEq(a.if_condition, b.if_condition)
           /\ TermEq(a.if_then, b.if_then)
           /\ TermEq(a.if_else, b.if_else)
    ELSE IF IsTrue(a) /\ IsTrue(b) THEN TRUE
    ELSE IF IsFalse(a) /\ IsFalse(b) THEN TRUE
    ELSE IF IsSucc(a) /\ IsSucc(b) THEN TermEq(a.unary_op_arg, b.unary_op_arg)
    ELSE IF IsPred(a) /\ IsPred(b) THEN TermEq(a.unary_op_arg, b.unary_op_arg)
    ELSE IF IsIsZero(a) /\ IsIsZero(b) THEN TermEq(a.unary_op_arg, b.unary_op_arg)
    ELSE IF IsConstantZero(a) /\ IsConstantZero(b) THEN TRUE
    ELSE FALSE

(***************************************************************************)
(* Operations that rewrite a term in place and may throw half-way: the     *)
(* outcome is the term as the operation left it and the exception, if any. *)
(***************************************************************************)
Done(t) == [t |-> t, ex |-> "none"]

Threw(t, what) == [t |-> t, ex |-> what]

\* Term::Clone (it changes nothing: the clone, or a Throw)
RECURSIVE Clone(_)
Clone(this) ==
    IF IsInvalid(this) THEN Throw("logic_error")
    ELSE CASE IsLambda(this) ->
                LET body == Clone(this.lambda_body) IN
                IF IsThrow(body) THEN body
                ELSE Combine(Lambda(this.lambda_arg_name, this.lambda_arg_type), body)
           [] IsVariable(this) -> Variable(this.variable_name, this.de_bruijn_idx)
           [] IsApplication(this) ->
                LET lhs == Clone(this.application_lhs)
                    rhs == Clone(this.application_rhs) IN
                IF IsThrow(lhs) THEN lhs
                ELSE IF IsThrow(rhs) THEN rhs
                ELSE Application(lhs, rhs)
           [] IsTrue(this) -> True
           [] IsFalse(this) -> False
           [] IsConstantZero(this) -> Zero
           [] IsSucc(this) ->
                LET arg == Clone(this.unary_op_arg) IN
                IF IsThrow(arg) THEN arg ELSE Combine(Succ, arg)
           [] IsIsZero(this) ->
                LET arg == Clone(this.unary_op_arg) IN
                IF IsThrow(arg) THEN arg ELSE Combine(IsZero, arg)
           [] OTHER -> Throw("logic_error")

\* The lambda `walk` of Term::Shift
RECURSIVE ShiftWalk(_, _, _)
ShiftWalk(distance, binding_context_size, term) ==
    IF IsInvalid(term) THEN Threw(term, "invalid_argument")
    ELSE CASE IsVariable(term) ->
                IF term.de_bruijn_idx >= binding_context_size
                  THEN Done([term EXCEPT !.de_bruijn_idx = @ + distance])
                  ELSE Done(term)
           [] IsLambda(term) ->
                LET body == ShiftWalk(distance, binding_context_size + 1,
                                      term.lambda_body) IN
                [t |-> [term EXCEPT !.lambda_body = body.t], ex |-> body.ex]
           [] IsApplication(term) ->
                LET lhs == ShiftWalk(distance, binding_context_size,
                                     term.application_lhs) IN
                IF lhs.ex # "none"
                  THEN Threw([term EXCEPT !.application_lhs = lhs.t], lhs.ex)
                  ELSE LET rhs == ShiftWalk(distance, binding_context_size,
                                            term.application_rhs) IN
                       [t |-> [term EXCEPT !.application_lhs = lhs.t,
                                           !.application_rhs = rhs.t],
                        ex |-> rhs.ex]
           [] OTHER -> Done(term)

\* Term::Shift
Shift(this, distance) == ShiftWalk(distance, 0, this)

\* The variable branch of `walk` in Term::Substitute: the clone of sub,
\* shifted, is swapped into the place of the variable `term`; an exception
\* leaves the variable as it was.
Swapped(term, shifted) ==
    IF shifted.ex # "none" THEN Threw(term, shifted.ex) ELSE shifted

Replace(term, clone, binding_context_size) ==
    IF IsThrow(clone) THEN Threw(term, clone.what)
    ELSE Swapped(term, Shift(clone, binding_context_size))

\* The lambda `walk` of Term::Substitute
RECURSIVE SubstituteWalk(_, _, _, _)
SubstituteWalk(variable, sub, binding_context_size, term) ==
    CASE IsVariable(term) ->
           IF term.de_bruijn_idx = variable + binding_context_size
             THEN Replace(term, Clone(sub), binding_context_size)
             ELSE Done(term)
      [] IsLambda(term) ->
           LET body == SubstituteWalk(variable, sub, binding_context_size + 1,
                                      term.lambda_body) IN
           [t |-> [term EXCEPT !.lambda_body = body.t], ex |-> body.ex]
      [] IsApplication(term) ->
           LET lhs == SubstituteWalk(variable, sub, binding_context_size,
                                     term.application_lhs) IN
           IF lhs.ex # "none"
             THEN Threw([term EXCEPT !.application_lhs = lhs.t], lhs.ex)
             ELSE LET rhs == SubstituteWalk(variable, sub, binding_context_size,
                                            term.application_rhs) IN
                  [t |-> [term EXCEPT !.application_lhs = lhs.t,
                                      !.application_rhs = rhs.t],
                   ex |-> rhs.ex]
      [] IsIf(term) ->
           LET c == SubstituteWalk(variable, sub, binding_context_size,
                                   term.if_condition) IN
           IF c.ex # "none" THEN Threw([term EXCEPT !.if_condition = c.t], c.ex)
           ELSE LET th == SubstituteWalk(variable, sub, binding_context_size,
                                         term.if_then) IN
                IF th.ex # "none"
                  THEN Threw([term EXCEPT !.if_condition = c.t, !.if_then = th.t],
                             th.ex)
                  ELSE LET el == SubstituteWalk(variable, sub, binding_context_size,
                                                term.if_else) IN
                       [t |-> [term EXCEPT !.if_condition = c.t, !.if_then = th.t,
                                           !.if_else = el.t],
                        ex |-> el.ex]
      [] IsSucc(term) \/ IsPred(term) \/ IsIsZero(term) ->
           LET arg == SubstituteWalk(variable, sub, binding_context_size,
                                     term.unary_op_arg) IN
           [t |-> [term EXCEPT !.unary_op_arg = arg.t], ex |-> arg.ex]
      [] OTHER -> Done(term)

\* Term::Substitute
Substitute(this, variable, sub) ==
    IF IsInvalid(this) \/ IsInvalid(sub) THEN Threw(this, "invalid_argument")
    ELSE SubstituteWalk(variable, sub, 0, this)

(***************************************************************************)
(* Parser: types                                                           *)
(***************************************************************************)
\* A parse that threw.
Fail == [ok |-> FALSE]

\* The loop that ends ParseType, were it to combine the parts from the left.
RECURSIVE CombinePartsFromLeft(_)
CombinePartsFromLeft(parts) ==
    IF Len(parts) = 1 THEN parts[1]
    ELSE TypeFunction(CombinePartsFromLeft(SubSeq(parts, 1, Len(parts) - 1)),
                      parts[Len(parts)])

\* The loop that ends ParseType: types are right-associative.
RECURSIVE CombineParts(_)
CombineParts(parts) ==
    IF Len(parts) = 1 THEN parts[1]
    ELSE TypeFunction(parts[1], CombineParts(Tail(parts)))

\* Parser::ParseType and Parser::ParseRecordType, called with
\* current_token_ = pos: the type and current_token_ on return, or Fail.
RECURSIVE ParseTypeLoop(_, _)
RECURSIVE ParseRecordFields(_, _, _)

Parsed(type, pos) == [ok |-> TRUE, type |-> type, pos |-> pos]

ParseRecordType(pos) ==
    IF TokenAt(pos).category # "OPEN_BRACE" THEN Fail
    ELSE ParseRecordFields(TokenAt(AfterNext(pos)), AfterNext(AfterNext(pos)),
                           <<>>)

ParseType(pos) == ParseTypeLoop(pos, <<>>)

\* ParseType, after the recursive call for a parenthesized type returned.
ParseTypeCloseParen(inner) ==
    IF ~inner.ok THEN Fail
    ELSE IF TokenAt(inner.pos).category # "CLOSE_PAREN" THEN Fail
    ELSE Parsed(inner.type, AfterNext(inner.pos))

\* ParseType: the part of the type that starts with `token`, read with
\* current_token_ = pos left behind.
ParseTypePart(token, pos) ==
    CASE token.category = "KEYWORD_BOOL" -> Parsed(TypeBool, pos)
      [] token.category = "KEYWORD_NAT" -> Parsed(TypeNat, pos)
      [] token.category = "OPEN_PAREN" -> ParseTypeCloseParen(ParseTypeLoop(pos, <<>>))
      [] token.category = "OPEN_BRACE" -> ParseRecordType(AfterPutBack(pos))
      [] OTHER -> Fail

\* ParseType: the token `next` after a part, read with current_token_ = pos
\* left behind; `parts` are the parts so far.
ParseTypeAfterPart(next, pos, parts) ==
    IF next.category = "DOT" THEN Parsed(CombineParts(parts), pos)
    ELSE IF next.category \in {"CLOSE_PAREN", "CLOSE_BRACE", "COMMA"}
      THEN Parsed(CombineParts(parts), AfterPutBack(pos))
    ELSE IF next.category # "ARROW" THEN Fail
    ELSE ParseTypeLoop(pos, parts)

ParseTypeWithPart(part, parts) ==
    IF ~part.ok THEN Fail
    ELSE ParseTypeAfterPart(TokenAt(part.pos), AfterNext(part.pos),
                            Append(parts, part.type))

\* One iteration of the while loop of ParseType, with current_token_ = pos.
ParseTypeLoop(pos, parts) ==
    ParseTypeWithPart(ParseTypePart(TokenAt(pos), AfterNext(pos)), parts)

\* ParseRecordType: the token `after` that follows a field's type, read with
\* current_token_ = pos left behind.
ParseRecordAfterField(after, pos, fields) ==
    IF after.category = "CLOSE_BRACE" THEN Parsed(TypeRecord(fields), pos)
    ELSE IF after.category = "COMMA"
      THEN ParseRecordFields(TokenAt(pos), AfterNext(pos), fields)
    ELSE Fail

ParseRecordWithType(field_id, type, fields) ==
    IF ~type.ok THEN Fail
    ELSE ParseRecordAfterField(TokenAt(type.pos), AfterNext(type.pos),
                               Append(fields, <<field_id, type.type>>))

\* One iteration of the while loop of ParseRecordType: `token` is the token
\* read last and pos is current_token_.
ParseRecordFields(token, pos, fields) ==
    IF token.category # "IDENTIFIER" THEN Fail
    ELSE IF TokenAt(pos).category # "COLON" THEN Fail
    ELSE ParseRecordWithType(token.text, ParseType(AfterNext(pos)), fields)

LambdaArg(arg_name, type) ==
    IF ~type.ok THEN Fail
    ELSE [ok |-> TRUE, name |-> arg_name, type |-> type.type, pos |-> type.pos]

\* Parser::ParseLambdaArg
ParseLambdaArg(pos) ==
    IF TokenAt(pos).category # "IDENTIFIER" THEN Fail
    ELSE IF TokenAt(AfterNext(pos)).category # "COLON" THEN Fail
    ELSE LambdaArg(TokenAt(pos).text, ParseType(AfterNext(AfterNext(pos))))

(***************************************************************************)
(* Parser: terms                                                           *)
(***************************************************************************)
Back(seq) == seq[Len(seq)]

PopBack(seq) == SubSeq(seq, 1, Len(seq) - 1)

SetBack(seq, x) == [seq EXCEPT ![Len(seq)] = x]

\* std::find over bound_variables: the first position holding `name`, or
\* Len + 1 for std::end.
RECURSIVE FindFrom(_, _, _)
FindFrom(seq, name, i) ==
    IF i > Len(seq) THEN i
    ELSE IF seq[i] = name THEN i
    ELSE FindFrom(seq, name, i + 1)

Find(seq, name) == FindFrom(seq, name, 1)

\* The stack with `combined` in the place of its top, or Fail.
WithBack(stack, combined) ==
    IF IsThrow(combined) THEN Fail
    ELSE [ok |-> TRUE, term_stack |-> SetBack(stack, combined)]

\* CombineStackTop, were the top popped and not combined.
CombineStackTopDropped(stack) ==
    IF Len(stack) < 2 THEN Fail
    ELSE WithBack(PopBack(stack), stack[Len(stack) - 1])

\* Parser::CombineStackTop: the stack it leaves, or Fail.
CombineStackTop(stack) ==
    IF Len(stack) < 2 THEN Fail
    ELSE WithBack(PopBack(stack), Combine(stack[Len(stack) - 1], Back(stack)))

\* The while loop of Parser::UnwindStack.
RECURSIVE UnwindLoop(_, _, _)

UnwindNext(combined, marks, bound) ==
    IF ~combined.ok THEN Fail
    ELSE UnwindLoop(combined.term_stack, marks, bound)

UnwindLoop(stack, marks, bound) ==
    IF stack # <<>> /\ marks # <<>> /\ Len(stack) > Back(marks)
      THEN IF IsLambda(Back(stack)) /\ ~Back(stack).is_complete_lambda
             THEN UnwindNext(
                      CombineStackTop(
                          SetBack(stack, [Back(stack) EXCEPT
                                            !.is_complete_lambda = TRUE])),
                      marks, PopBack(bound))
             ELSE UnwindNext(CombineStackTop(stack), marks, bound)
      ELSE [ok |-> TRUE, term_stack |-> stack, bound_variables |-> bound]

Unwound(unwound, marks) ==
    IF ~unwound.ok THEN Fail
    ELSE [ok |-> TRUE, term_stack |-> unwound.term_stack,
          bound_variables |-> unwound.bound_variables,
          stack_size_on_open_paren |->
              IF marks # <<>> THEN PopBack(marks) ELSE marks]

\* Parser::UnwindStack
UnwindStack(stack, marks, bound) ==
    Unwound(UnwindLoop(stack, marks, bound), marks)

\* std::find finds the identifier in bound_variables.
IsBound(bound, text) == Find(bound, text) # Len(bound) + 1

\* ParseProgram, were the free index not to count the open binders.
IndexAtWithoutDepth(bound, text, bound_variable_it) ==
    IF bound_variable_it # Len(bound) + 1
      THEN (Len(bound) + 1 - bound_variable_it) - 1
      ELSE ToLower(Chars(text)[1]) - LowerA

\* The de Bruijn index ParseProgram gives an identifier that std::find finds
\* at bound_variable_it, or that is free and one character long.
IndexAt(bound, text, bound_variable_it) ==
    IF bound_variable_it # Len(bound) + 1
      THEN (Len(bound) + 1 - bound_variable_it) - 1
      ELSE Len(bound) + (ToLower(Chars(text)[1]) - LowerA)

DeBruijnIdx(bound, text) == IndexAt(bound, text, Find(bound, text))

\* A new term on the stack: in the slot of the stack top when that is
\* empty, else pushed.
PushTerm(stack, term) ==
    IF IsEmpty(Back(stack)) THEN SetBack(stack, term) ELSE Append(stack, term)

\* The parser's locals, as one record.
Locals(stack, marks, bound, balance, pos) ==
    [ok |-> TRUE, term_stack |-> stack, stack_size_on_open_paren |-> marks,
     bound_variables |-> bound, balance_parens |-> balance, pos |-> pos]

CombinedBack(combined, stack, marks, bound, balance, pos) ==
    IF IsThrow(combined) THEN Fail
    ELSE Locals(SetBack(stack, combined), marks, bound, balance, pos)

\* term_stack.back().Combine(term)
CombineBack(stack, marks, bound, balance, pos, term) ==
    CombinedBack(Combine(Back(stack), term), stack, marks, bound, balance, pos)

\* The LAMBDA branch of ParseProgram, ParseLambdaArg having returned.
OnLambda(lambda_arg, stack, marks, bound, balance) ==
    IF ~lambda_arg.ok THEN Fail
    ELSE Locals(PushTerm(stack, Lambda(lambda_arg.name, lambda_arg.type)),
                marks, Append(bound, lambda_arg.name), balance, lambda_arg.pos)

\* The IDENTIFIER branch of ParseProgram.
OnIdentifier(text, stack, marks, bound, balance, pos) ==
    IF ~IsBound(bound, text) /\ Len(Chars(text)) # 1 THEN Fail
    ELSE CombineBack(stack, marks, bound, balance, pos,
                     Variable(text, DeBruijnIdx(bound, text)))

\* The KEYWORD_IF branch, `pushed` being the stack with the If term on it.
OnIf(pushed, marks, bound, balance, pos) ==
    Locals(Append(pushed, EmptyTerm), Append(marks, Len(pushed)), bound,
           balance + 1, pos)

\* The KEYWORD_THEN branch, UnwindStack having returned.
OnThen(unwound, balance, pos) ==
    IF ~unwound.ok THEN Fail
    ELSE IF ~IsIf(Back(unwound.term_stack)) THEN Fail
    ELSE Locals(Append(unwound.term_stack, EmptyTerm),
                Append(unwound.stack_size_on_open_paren, Len(unwound.term_stack)),
                unwound.bound_variables, (balance - 1) + 1, pos)

\* The KEYWORD_ELSE branch, UnwindStack having returned.
OnElse(unwound, balance, pos) ==
    IF ~unwound.ok THEN Fail
    ELSE IF ~IsIf(Back(unwound.term_stack)) THEN Fail
    ELSE Locals(unwound.term_stack, unwound.stack_size_on_open_paren,
                unwound.bound_variables, balance - 1, pos)

\* The CLOSE_PAREN branch, UnwindStack having returned.
OnCloseParen(unwound, balance, pos) ==
    IF ~unwound.ok THEN Fail
    ELSE Locals(unwound.term_stack, unwound.stack_size_on_open_paren,
                unwound.bound_variables, balance - 1, pos)

\* One iteration of the while loop of Parser::ParseProgram, for a token
\* `next_token` other than MARKER_END, read with current_token_ = pos left
\* behind.
ParseIteration(next_token, stack, marks, bound, balance, pos) ==
    CASE next_token.category = "LAMBDA" ->
           OnLambda(ParseLambdaArg(pos), stack, marks, bound, balance)
      [] next_token.category = "IDENTIFIER" ->
           OnIdentifier(next_token.text, stack, marks, bound, balance, pos)
      [] next_token.category = "KEYWORD_IF" ->
           OnIf(PushTerm(stack, If), marks, bound, balance, pos)
      [] next_token.category = "KEYWORD_THEN" ->
           OnThen(UnwindStack(stack, marks, bound), balance, pos)
      [] next_token.category = "KEYWORD_ELSE" ->
           OnElse(UnwindStack(stack, marks, bound), balance, pos)
      [] next_token.category = "KEYWORD_SUCC" ->
           Locals(PushTerm(stack, Succ), marks, bound, balance, pos)
      [] next_token.category = "KEYWORD_PRED" ->
           Locals(PushTerm(stack, Pred), marks, bound, balance, pos)
      [] next_token.category = "KEYWORD_ISZERO" ->
           Locals(PushTerm(stack, IsZero), marks, bound, balance, pos)
      [] next_token.category = "OPEN_PAREN" ->
           Locals(Append(stack, EmptyTerm), Append(marks, Len(stack)), bound,
                  balance + 1, pos)
      [] next_token.category = "CLOSE_PAREN" ->
           OnCloseParen(UnwindStack(stack, marks, bound), balance, pos)
      [] next_token.category = "CONSTANT_TRUE" ->
           CombineBack(stack, marks, bound, balance, pos, True)
      [] next_token.category = "CONSTANT_FALSE" ->
           CombineBack(stack, marks, bound, balance, pos, False)
      [] next_token.category = "CONSTANT_ZERO" ->
           CombineBack(stack, marks, bound, balance, pos, Zero)
      [] OTHER -> Fail

\* The loop `while (term_stack.size() > 1) CombineStackTop(term_stack)`.
RECURSIVE CombineAll(_)

CombineAllNext(combined) ==
    IF ~combined.ok THEN Fail ELSE CombineAll(combined.term_stack)

CombineAll(stack) ==
    IF Len(stack) > 1 THEN CombineAllNext(CombineStackTop(stack))
    ELSE [ok |-> TRUE, term_stack |-> stack]

\* The end of ParseProgram, the loop over the stack having ended.
Returned(combined) ==
    IF ~combined.ok THEN Throw("invalid_argument")
    ELSE IF IsInvalid(Back(combined.term_stack)) THEN Throw("invalid_argument")
    ELSE Back(combined.term_stack)

\* What ParseProgram does once NextToken() returned MARKER_END: the term it
\* returns, or a Throw.
ParseEnd(stack, balance) ==
    IF balance # 0 THEN Throw("invalid_argument")
    ELSE Returned(CombineAll(stack))

(***************************************************************************)
(* Type checker                                                            *)
(***************************************************************************)
\* TypeOf dereferencing a null child (undefined behaviour): never a Type.
TypeFault == [category |-> "FAULT"]

IsFault(t) == t.category = "FAULT"

\* TypeChecker::AddBinding
AddBinding(current_ctx, var_name, type) == <<(<<var_name, type>>)>> \o current_ctx

\* The branches of TypeChecker::TypeOf(const Context&, const Term&), given
\* the types the recursive calls returned.
TypeOfIf(cond_type, then_type, else_type) ==
    IF IsFault(cond_type) THEN TypeFault
    ELSE IF ~TypeEq(cond_type, TypeBool) THEN TypeIllTyped
    ELSE IF IsFault(then_type) \/ IsFault(else_type) THEN TypeFault
    ELSE IF TypeEq(then_type, else_type) THEN then_type
    ELSE TypeIllTyped

\* TypeOf, were succ and pred given Nat whatever their operand.
TypeOfSuccPredUnchecked(subterm_type) ==
    IF IsFault(subterm_type) THEN TypeFault ELSE TypeNat

TypeOfSuccPred(subterm_type) ==
    IF IsFault(subterm_type) THEN TypeFault
    ELSE IF TypeEq(subterm_type, TypeNat) THEN TypeNat
    ELSE TypeIllTyped

TypeOfIsZero(subterm_type) ==
    IF IsFault(subterm_type) THEN TypeFault
    ELSE IF TypeEq(subterm_type, TypeNat) THEN TypeBool
    ELSE TypeIllTyped

TypeOfLambda(arg_type, return_type) ==
    IF IsFault(return_type) THEN TypeFault
    ELSE TypeFunction(arg_type, return_type)

\* TypeOf, were an application given the result type of its function part
\* whatever its argument.
TypeOfApplicationUnchecked(lhs_type, rhs_type) ==
    IF IsFault(lhs_type) \/ IsFault(rhs_type) THEN TypeFault
    ELSE IF IsFunction(lhs_type) THEN lhs_type.rhs
    ELSE TypeIllTyped

TypeOfApplication(lhs_type, rhs_type) ==
    IF IsFault(lhs_type) \/ IsFault(rhs_type) THEN TypeFault
    ELSE IF IsFunction(lhs_type) /\ TypeEq(lhs_type.lhs, rhs_type) THEN lhs_type.rhs
    ELSE TypeIllTyped

TypeOfVariable(ctx, idx, var_name) ==
    IF idx >= 0 /\ idx < Len(ctx) /\ ctx[idx + 1][1] = var_name
      THEN ctx[idx + 1][2]
      ELSE TypeIllTyped

\* TypeChecker::TypeOf(const Context&, const Term&)
RECURSIVE TypeOfIn(_, _)
TypeOfIn(ctx, term) ==
    CASE IsNull(term) -> TypeFault
      [] IsTrue(term) \/ IsFalse(term) -> TypeBool
      [] IsConstantZero(term) -> TypeNat
      [] IsIf(term) ->
           TypeOfIf(TypeOfIn(ctx, term.if_condition), TypeOfIn(ctx, term.if_then),
                    TypeOfIn(ctx, term.if_else))
      [] IsSucc(term) \/ IsPred(term) ->
           TypeOfSuccPred(TypeOfIn(ctx, term.unary_op_arg))
      [] IsIsZero(term) -> TypeOfIsZero(TypeOfIn(ctx, term.unary_op_arg))
      [] IsLambda(term) ->
           TypeOfLambda(term.lambda_arg_type,
                        TypeOfIn(AddBinding(ctx, term.lambda_arg_name,
                                            term.lambda_arg_type),
                                 term.lambda_body))
      [] IsApplication(term) ->
           TypeOfApplication(TypeOfIn(ctx, term.application_lhs),
                             TypeOfIn(ctx, term.application_rhs))
      [] IsVariable(term) ->
           TypeOfVariable(ctx, term.de_bruijn_idx, term.variable_name)
      [] OTHER -> TypeIllTyped

\* TypeChecker::TypeOf(const Term&)
TypeOf(term) == TypeOfIn(<<>>, term)

(***************************************************************************)
(* Interpreter                                                             *)
(***************************************************************************)
\* Interpreter::IsNatValue
RECURSIVE IsNatValue(_)
IsNatValue(term) ==
    IsConstantZero(term) \/ (IsSucc(term) /\ IsNatValue(term.unary_op_arg))

\* Interpreter::IsValue
IsValue(term) ==
    IsLambda(term) \/ IsVariable(term) \/ IsTrue(term) \/ IsFalse(term)
        \/ IsNatValue(term)

\* The application `term` with `rhs` and the body `body` of its lambda, as an
\* exception in term_subst_top leaves it.
Left(term, rhs, body, what) ==
    Threw([term EXCEPT !.application_rhs = rhs,
                       !.application_lhs.lambda_body = body], what)

\* The lambda term_subst_top of Eval1, applied to the two children of the
\* application `term`: s.Shift(1); t.Substitute(0, s); t.Shift(-1); and then
\* the swap that puts the body in the place of the application.
BetaSwap(term, s, down) ==
    IF down.ex # "none" THEN Left(term, s, down.t, down.ex) ELSE Done(down.t)

BetaShiftDown(term, s, t) ==
    IF t.ex # "none" THEN Left(term, s, t.t, t.ex)
    ELSE BetaSwap(term, s, Shift(t.t, -1))

BetaSubstitute(term, s) ==
    IF s.ex # "none" THEN Threw([term EXCEPT !.application_rhs = s.t], s.ex)
    ELSE BetaShiftDown(term, s.t,
                       Substitute(term.application_lhs.lambda_body, 0, s.t))

\* Eval1, were the argument swapped into the place of the application.
BetaStepToArgument(term) == Done(term.application_rhs)

BetaStep(term) == BetaSubstitute(term, Shift(term.application_rhs, 1))

\* Interpreter::Eval1: the term as the call leaves it, and the exception
\* that ends the call, if any.
RECURSIVE Eval1(_)
Eval1(term) ==
    CASE IsApplication(term) /\ IsLambda(term.application_lhs)
            /\ IsValue(term.application_rhs) -> BetaStep(term)
      [] IsApplication(term) /\ ~(IsLambda(term.application_lhs)
                                   /\ IsValue(term.application_rhs))
            /\ IsValue(term.application_lhs) ->
           LET rhs == Eval1(term.application_rhs) IN
           [t |-> [term EXCEPT !.application_rhs = rhs.t], ex |-> rhs.ex]
      [] IsApplication(term) /\ ~IsValue(term.application_lhs) ->
           LET lhs == Eval1(term.application_lhs) IN
           [t |-> [term EXCEPT !.application_lhs = lhs.t], ex |-> lhs.ex]
      [] IsIf(term) ->
           IF TermEq(term.if_condition, True) THEN Done(term.if_then)
           ELSE IF TermEq(term.if_condition, False) THEN Done(term.if_else)
           ELSE LET c == Eval1(term.if_condition) IN
                [t |-> [term EXCEPT !.if_condition = c.t], ex |-> c.ex]
      [] IsSucc(term) ->
           LET arg == Eval1(term.unary_op_arg) IN
           [t |-> [term EXCEPT !.unary_op_arg = arg.t], ex |-> arg.ex]
      [] IsPred(term) ->
           LET pred_arg == term.unary_op_arg IN
           IF IsConstantZero(pred_arg) THEN Done(pred_arg)
           ELSE IF IsSucc(pred_arg) /\ IsNatValue(pred_arg)
             THEN Done(pred_arg.unary_op_arg)
           ELSE LET arg == Eval1(pred_arg) IN
                [t |-> [term EXCEPT !.unary_op_arg = arg.t], ex |-> arg.ex]
      [] IsIsZero(term) ->
           LET iszero_arg == term.unary_op_arg IN
           IF IsConstantZero(iszero_arg) THEN Done(True)
           ELSE IF IsSucc(iszero_arg) /\ IsNatValue(iszero_arg) THEN Done(False)
           ELSE LET arg == Eval1(iszero_arg) IN
                [t |-> [term EXCEPT !.unary_op_arg = arg.t], ex |-> arg.ex]
      [] OTHER -> Threw(term, "invalid_argument")

(***************************************************************************)
(* Inputs.  An input is the sequence of token strings the Lexer's          *)
(* constructor leaves in token_strings_.                                   *)
(***************************************************************************)
\* Pieces of source text, put together in every order.
Chunks ==
    { <<"l", "x", ":", "Bool", ".">>, <<"l", "x", ":", "Nat", ".">>,
      <<"l", "y", ":", "Bool", ".">>,
      <<"x">>, <<"y">>, <<"a">>, <<"A">>, <<"_">>, <<"xy">>,
      <<"if">>, <<"then">>, <<"else">>, <<"succ">>, <<"pred">>, <<"iszero">>,
      <<"(">>, <<")">>, <<"true">>, <<"false">>, <<"0">> }

RECURSIVE ChunkInputs(_)
ChunkInputs(n) ==
    IF n = 0 THEN {<<>>}
    ELSE LET shorter == ChunkInputs(n - 1) IN
         shorter \cup {i \o c : i \in shorter, c \in Chunks}

\* Well-formed source terms with at most n nodes, written out with every
\* compound term in parentheses.
Atoms == {<<"true">>, <<"false">>, <<"0">>, <<"x">>, <<"y">>}

Headers ==
    { <<"l", "x", ":", "Nat", ".">>, <<"l", "y", ":", "Bool", ".">>,
      <<"l", "x", ":", "Nat", "->", "Nat", ".">> }

Unary == {<<"succ">>, <<"pred">>, <<"iszero">>}

Paren(tokens) == <<"(">> \o tokens \o <<")">>

RECURSIVE SourcesOfSize(_)
SourcesOfSize(n) ==
    IF n = 1 THEN Atoms
    ELSE {Paren(h \o b) : h \in Headers \cup Unary, b \in SourcesOfSize(n - 1)}
         \cup UNION {{Paren(f \o a) : f \in SourcesOfSize(k),
                                      a \in SourcesOfSize(n - 1 - k)}
                     : k \in 1..(n - 2)}
         \cup UNION {UNION {{Paren(<<"if">> \o c \o <<"then">> \o a \o <<"else">> \o b)
                             : c \in SourcesOfSize(k), a \in SourcesOfSize(m),
                               b \in SourcesOfSize(n - 1 - k - m)}
                            : m \in 1..(n - 2 - k)}
                     : k \in 1..(n - 3)}

Sources == UNION {SourcesOfSize(n) : n \in 1..MaxSize}

\* Programs of the repository's tests and of the specification's scenarios,
\* in the language of this chapter.
Corpus ==
    { <<"if", "false", "then", "true", "else", "succ", "succ", "0">>,
      <<"if", "true", "then", "0", "else", "iszero", "0">>,
      <<"(", "l", "x", ":", "Nat", ".", "succ", "x", ")", "succ", "0">>,
      <<"(", "l", "x", ":", "Bool", ".", "x", ")", "x">>,
      <<"(", "l", "x", ":", "Bool", ".", "x", ")", "if", "false", "then", "true",
        "else", "l", "x", ":", "Bool", ".", "x">>,
      <<"(", "l", "x", ":", "Bool", ".", "if", "x", "then", "true", "else",
        "false", ")", "true">>,
      <<"(", "l", "x", ":", "Nat", "->", "Nat", ".", "x", ")",
        "l", "y", ":", "Nat", ".", "pred", "y">>,
      <<"(", "l", "x", ":", "Nat", "->", "Nat", ".", "x", ")",
        "l", "y", ":", "Nat", ".", "succ", "y">>,
      <<"(", "l", "f", ":", "Bool", "->", "Bool", ".", "f", "true", ")",
        "l", "y", ":", "Bool", ".", "if", "y", "then", "false", "else", "true">>,
      <<"(", "l", "x", ":", "Bool", ".", "l", "x", ":", "Nat", ".", "x", ")",
        "true">>,
      <<"l", "x", ":", "Bool", ".", "l", "y", ":", "Bool", ".", "_">>,
      <<"(", "l", "x", ":", "Bool", ".", "l", "y", ":", "Bool", ".", "x", ")",
        "true", "false">>,
      <<"(", "l", "x", ":", "Nat", ".", "l", "f", ":", "Nat", "->", "Nat", ".",
        "f", "x", ")", "0", "l", "y", ":", "Nat", ".", "succ", "y">> }

\* Conditionals in which each of the two places of `then` and `else` holds a
\* keyword or a parenthesis, alone and inside parentheses.
Delimiters == {"then", "else", "(", ")"}

Conditionals ==
    {open \o <<"if", "true", d1, "0", d2, "0">> \o close
       : open \in {<<>>, <<"(">>}, d1 \in Delimiters, d2 \in Delimiters,
         close \in {<<>>, <<")">>}}

\* The sequences of 1 to n free variables.
RECURSIVE Juxtaposed(_)
Juxtaposed(n) ==
    IF n = 1 THEN {<<"a">>, <<"b">>, <<"x">>}
    ELSE LET shorter == Juxtaposed(n - 1) IN
         shorter \cup {j \o v : j \in shorter, v \in Juxtaposed(1)}

\* Juxtapositions after nothing, after a variable and after an abstraction
\* in parentheses, and abstractions with a juxtaposition for the body, the
\* last item of which may be an abstraction again.
Juxtapositions ==
    LET before == {<<>>, <<"f">>, <<"(", "l", "x", ":", "Bool", ".", "x", ")">>}
        items == Juxtaposed(MaxAtoms)
        last == {<<>>, <<"l", "z", ":", "Bool", ".", "z">>}
    IN  items
        \cup {b \o <<"l", "y", ":", "Bool", ".">> \o i \o z
                : b \in before, i \in Juxtaposed(2), z \in last}

\* Conditionals with a juxtaposition for the else branch, alone and in
\* parentheses with an argument after them.
ElseApplications ==
    LET ifs == {<<"if", c, "then", t, "else">> \o e
                  : c \in {"true", "x"}, t \in {"0", "a"},
                    e \in Juxtaposed(MaxAtoms) \ Juxtaposed(1)}
    IN  ifs \cup {Paren(i) \o <<"b">> : i \in ifs}

\* The atoms of a type: the base types, and types in parentheses.
TypeAtoms ==
    { <<"Bool">>, <<"Nat">>, <<"(", "Nat", ")">>, <<"(", "Bool", "->", "Nat", ")">>,
      <<"(", "(", "Nat", "->", "Bool", ")", "->", "Nat", ")">> }

\* The chains of 1 to n type atoms separated by `->`.
RECURSIVE TypeChains(_)
TypeChains(n) ==
    IF n = 1 THEN TypeAtoms
    ELSE LET shorter == TypeChains(n - 1) IN
         shorter \cup {a \o <<"->">> \o c : a \in TypeAtoms, c \in shorter}

\* An abstraction over each chain.
TypedAbstractions ==
    {<<"l", "x", ":">> \o c \o <<".", "x">> : c \in TypeChains(MaxArrows + 1)}

\* Applications of an abstraction whose body, or whose argument, holds a free
\* variable inside a conditional, succ, pred or iszero.
OpenBodies ==
    { <<"(", "l", "x", ":", "Bool", ".", "if", "y", "then", "x", "else", "x", ")",
        "true">>,
      <<"(", "l", "x", ":", "Nat", ".", "succ", "y", ")", "0">>,
      <<"(", "l", "x", ":", "Nat", ".", "pred", "y", ")", "0">>,
      <<"(", "l", "x", ":", "Nat", ".", "iszero", "y", ")", "0">>,
      <<"(", "l", "x", ":", "Nat", ".", "l", "z", ":", "Nat", ".", "succ", "x", ")",
        "0">>,
      <<"(", "l", "x", ":", "Bool", ".", "l", "z", ":", "Bool", ".", "x", ")",
        "l", "z", ":", "Nat", ".", "succ", "y">>,
      <<"(", "l", "x", ":", "Bool", ".", "l", "z", ":", "Bool", ".", "x", ")",
        "l", "z", ":", "Nat", ".", "iszero", "z">>,
      <<"(", "l", "x", ":", "Bool", ".", "x", ")",
        "l", "z", ":", "Bool", ".", "if", "y", "then", "z", "else", "z">> }

\* Self-application applied to itself, and to the identity.
SelfApplications ==
    { <<"(", "l", "x", ":", "Bool", ".", "x", "x", ")",
        "l", "x", ":", "Bool", ".", "x", "x">>,
      <<"(", "l", "x", ":", "Bool", ".", "x", "x", ")",
        "l", "y", ":", "Bool", ".", "y">> }

Programs ==
    ChunkInputs(MaxChunks) \cup Sources \cup Corpus \cup Conditionals
    \cup Juxtapositions \cup ElseApplications \cup TypedAbstractions
    \cup OpenBodies \cup SelfApplications

(***************************************************************************)
(* The pipeline: Parser(in).ParseProgram(), then Interpreter::Interpret on *)
(* the term it returned.                                                   *)
(***************************************************************************)
NoResult == [returned |-> FALSE]

\* The number Interpret prints for a numeric value: the occurrences of
\* "succ" in its text.
RECURSIVE SuccCount(_)
SuccCount(term) == IF IsSucc(term) THEN 1 + SuccCount(term.unary_op_arg) ELSE 0

\* What Interpret does after Eval returned.
InterpretResult(term) ==
    [returned |-> TRUE,
     is_num |-> IsNatValue(term),
     num |-> IF IsNatValue(term) THEN SuccCount(term) ELSE 0,
     term |-> term,
     type |-> TypeOf(term)]

\* No program was run before this one.
NoFirst == [ran |-> FALSE]

InitPools ==
    /\ function_pool = <<>>
    /\ record_pool = <<>>
    /\ calls = <<>>

Init ==
    /\ token_strings_ \in Programs
    /\ current_token_ = 0
    /\ term_stack = <<EmptyTerm>>
    /\ stack_size_on_open_paren = <<>>
    /\ bound_variables = <<>>
    /\ balance_parens = 0
    /\ pc = "parsing"
    /\ parsed = NullTerm
    /\ program = NullTerm
    /\ steps = 0
    /\ result = NoResult
    /\ first = NoFirst
    /\ lexer_calls = <<>>
    /\ store = <<>>
    /\ store_log = <<>>
    /\ InitPools

\* The parser's locals after an iteration that left `next`, or the exception.
ParseTokenTo(next) ==
    IF next.ok
      THEN /\ term_stack' = next.term_stack
           /\ stack_size_on_open_paren' = next.stack_size_on_open_paren
           /\ bound_variables' = next.bound_variables
           /\ balance_parens' = next.balance_parens
           /\ current_token_' = next.pos
           /\ pc' = "parsing"
      ELSE /\ pc' = "parse_error"
           /\ UNCHANGED <<parser_vars, current_token_>>

\* One iteration of the while loop of ParseProgram.
ParseToken ==
    /\ pc = "parsing"
    /\ TokenAt(current_token_).category # "MARKER_END"
    /\ ParseTokenTo(ParseIteration(TokenAt(current_token_), term_stack,
                                   stack_size_on_open_paren, bound_variables,
                                   balance_parens, AfterNext(current_token_)))
    /\ UNCHANGED <<token_strings_, parsed, program, steps, result, history_vars,
                   store_vars, pool_vars>>

ParseReturn(term) ==
    IF IsThrow(term)
      THEN /\ pc' = "parse_error"
           /\ UNCHANGED <<parsed, program>>
      ELSE /\ pc' = "parsed"
           /\ parsed' = term
           /\ program' = term

\* The end of ParseProgram: the loop's condition fails on MARKER_END.
ParseFinish ==
    /\ pc = "parsing"
    /\ TokenAt(current_token_).category = "MARKER_END"
    /\ ParseReturn(ParseEnd(term_stack, balance_parens))
    /\ UNCHANGED <<token_strings_, current_token_, parser_vars, steps, result,
                   history_vars, store_vars, pool_vars>>

\* Interpret after a call Eval1(program) that ended as `step` says.
EvalTo(step) ==
    /\ program' = step.t
    /\ CASE step.ex = "none" ->
              /\ pc' = "eval"
              /\ steps' = steps + 1
              /\ result' = result
         [] step.ex = "invalid_argument" ->
              /\ pc' = "done"
              /\ steps' = steps
              /\ result' = InterpretResult(step.t)
         [] OTHER ->
              /\ pc' = "threw"
              /\ steps' = steps
              /\ result' = result

\* One call Eval1(term) of Interpreter::Eval, called by Interpret: the
\* program is rewritten; or std::invalid_argument ends Eval and Interpret
\* goes on to return; or another exception leaves Interpret.
EvalStep ==
    /\ pc \in {"parsed", "eval"}
    /\ steps < MaxSteps
    /\ EvalTo(Eval1(program))
    /\ UNCHANGED <<token_strings_, current_token_, parser_vars, parsed,
                   history_vars, store_vars, pool_vars>>

Next == ParseToken \/ ParseFinish \/ EvalStep

Spec == Init /\ [][Next]_vars

(***************************************************************************)
(* The factories of Type called in any order, with instances obtained      *)
(* from earlier calls as arguments.  No program is parsed meanwhile.       *)
(***************************************************************************)
FieldNames == {"a", "b"}

\* The field lists of at most n fields over the instances there are.
RECURSIVE FieldLists(_)
FieldLists(n) ==
    IF n = 0 THEN {<<>>}
    ELSE LET shorter == FieldLists(n - 1) IN
         shorter \cup {Append(fields, <<name, type>>) :
                          fields \in shorter, name \in FieldNames, type \in Instances}

InitTypes ==
    /\ token_strings_ = <<>>
    /\ current_token_ = 0
    /\ term_stack = <<EmptyTerm>>
    /\ stack_size_on_open_paren = <<>>
    /\ bound_variables = <<>>
    /\ balance_parens = 0
    /\ pc = "types"
    /\ parsed = NullTerm
    /\ program = NullTerm
    /\ steps = 0
    /\ result = NoResult
    /\ first = NoFirst
    /\ lexer_calls = <<>>
    /\ store = <<>>
    /\ store_log = <<>>
    /\ InitPools

CallFunctionAny == \E lhs \in Instances, rhs \in Instances : CallFunction(lhs, rhs)

CallRecordAny == \E fields \in FieldLists(MaxFields) : CallRecord(fields)

NextTypes == CallIllTyped \/ CallBool \/ CallNat \/ CallFunctionAny \/ CallRecordAny

SpecTypes == InitTypes /\ [][NextTypes]_vars

(***************************************************************************)
(* Printing.  A text is a sequence of pieces: a piece is one of the        *)
(* characters the lexer looks at (space, the separators, '-', '>', '<') or *)
(* a word made of other characters only.                                   *)
(***************************************************************************)
\* operator<<(std::ostream&, const Type&)
RECURSIVE PrintType(_)

\* The loop over record_fields_, from field i on.
RECURSIVE PrintFields(_, _)
PrintFields(record_fields_, i) ==
    IF i > Len(record_fields_) THEN <<>>
    ELSE (IF i > 1 THEN <<",", " ">> ELSE <<>>)
         \o <<record_fields_[i][1], ":">> \o PrintType(record_fields_[i][2])
         \o PrintFields(record_fields_, i + 1)

PrintType(type) ==
    IF IsBool(type) THEN <<"Bool">>
    ELSE IF IsNat(type) THEN <<"Nat">>
    ELSE IF IsFunction(type)
      THEN <<"(">> \o PrintType(type.lhs) \o <<" ", "-", ">", " ">>
           \o PrintType(type.rhs) \o <<")">>
    ELSE IF IsRecord(type)
      THEN <<"{">> \o PrintFields(type.record_fields, 1) \o <<"}">>
    ELSE <<"#">>

\* operator<<(std::ostream&, const Term&)
RECURSIVE PrintTerm(_)
PrintTerm(term) ==
    IF IsInvalid(term) THEN <<"<", "INVALID", ">">>
    ELSE IF IsVariable(term) THEN <<term.variable_name>>
    ELSE IF IsLambda(term)
      THEN <<"{", "l", " ", term.lambda_arg_name, " ", ":", " ">>
           \o PrintType(term.lambda_arg_type) \o <<".", " ">>
           \o PrintTerm(term.lambda_body) \o <<"}">>
    ELSE IF IsApplication(term)
      THEN <<"(">> \o PrintTerm(term.application_lhs) \o <<" ", "<", "-", " ">>
           \o PrintTerm(term.application_rhs) \o <<")">>
    ELSE IF IsIf(term)
      THEN <<"if", " ", "(">> \o PrintTerm(term.if_condition)
           \o <<")", " ", "then", " ", "(">> \o PrintTerm(term.if_then)
           \o <<")", " ", "else", " ", "(">> \o PrintTerm(term.if_else) \o <<")">>
    ELSE IF IsTrue(term) THEN <<"true">>
    ELSE IF IsFalse(term) THEN <<"false">>
    ELSE IF IsSucc(term)
      THEN <<"succ", " ", "(">> \o PrintTerm(term.unary_op_arg) \o <<")">>
    ELSE IF IsPred(term)
      THEN <<"succ", " ", "(">> \o PrintTerm(term.unary_op_arg) \o <<")">>
    ELSE IF IsIsZero(term)
      THEN <<"succ", " ", "(">> \o PrintTerm(term.unary_op_arg) \o <<")">>
    ELSE IF IsConstantZero(term) THEN <<"0">>
    ELSE <<"<", "ERROR", ">">>

\* The one-character separators of Lexer::SurroundTokensBySpaces.
Separators == {":", ",", ".", "=", "(", ")", "{", "}"}

\* The pieces lo..hi of `pieces` one after the other, the range halved at
\* every level.
RECURSIVE Joined(_, _, _)
Joined(pieces, lo, hi) ==
    IF lo > hi THEN <<>>
    ELSE IF lo = hi THEN pieces[lo]
    ELSE Joined(pieces, lo, (lo + hi) \div 2)
           \o Joined(pieces, (lo + hi) \div 2 + 1, hi)

\* One turn of the loop of Lexer::SurroundTokensBySpaces: what the character
\* at `i` adds to processed_stream.  A '>' right after a '-' was taken by
\* in.get(c) in the turn of that '-'.
Surrounded(in, i) ==
    IF in[i] \in Separators THEN <<" ", in[i], " ">>
    ELSE IF in[i] = "-"
      THEN IF i < Len(in) /\ in[i + 1] = ">"
             THEN <<" ", "->", " ">>
             ELSE <<" ", "-", " ">>
    ELSE IF in[i] = ">" /\ i > 1 /\ in[i - 1] = "-" THEN <<>>
    ELSE <<in[i]>>

\* Lexer::SurroundTokensBySpaces
SurroundTokensBySpaces(in) ==
    Joined([i \in 1..Len(in) |-> Surrounded(in, i)], 1, Len(in))

\* The word that starts at `i`: the characters up to the next space.
RECURSIVE WordFrom(_, _)
WordFrom(processed, i) ==
    IF i < Len(processed) /\ processed[i + 1] # " "
      THEN processed[i] \o WordFrom(processed, i + 1)
      ELSE processed[i]

\* The word that starts at `i`, if one does: a character that is no space,
\* at the start of the text or right after a space.
WordAt(processed, i) ==
    IF processed[i] # " " /\ (i = 1 \/ processed[i - 1] = " ")
      THEN <<WordFrom(processed, i)>>
      ELSE <<>>

\* std::istream_iterator<std::string> over the processed text: the words
\* between the spaces, `word` being the one read so far.
SplitWords(processed, word) ==
    IF word = ""
      THEN Joined([i \in 1..Len(processed) |-> WordAt(processed, i)],
                  1, Len(processed))
      ELSE Joined([i \in 1..(Len(processed) + 1) |->
                      WordAt(<<word>> \o processed, i)],
                  1, Len(processed) + 1)

\* Lexer::Lexer: token_strings_ for the text `in`.
LexerStrings(in) == SplitWords(SurroundTokensBySpaces(in), "")

(***************************************************************************)
(* Programs that differ in the names of their binders only.  A skeleton is *)
(* a closed term without names; it is written out with every choice of     *)
(* names under which each variable still refers to its own binder.         *)
(***************************************************************************)
BinderNames == {"x", "y"}

SkVar(i) == [k |-> "var", i |-> i]

SkLam(b) == [k |-> "lam", b |-> b]

SkApp(f, a) == [k |-> "app", f |-> f, a |-> a]

SkTrue == [k |-> "true"]

SkFalse == [k |-> "false"]

\* The skeletons of n nodes under `depth` binders.
RECURSIVE SkeletonsOfSize(_, _)
SkeletonsOfSize(n, depth) ==
    IF n = 1 THEN {SkTrue} \cup {SkVar(i) : i \in 0..(depth - 1)}
    ELSE {SkLam(b) : b \in SkeletonsOfSize(n - 1, depth + 1)}
         \cup UNION {{SkApp(f, a) : f \in SkeletonsOfSize(m, depth),
                                    a \in SkeletonsOfSize(n - 1 - m, depth)}
                     : m \in 1..(n - 2)}

\* A skeleton applied to as many constants as it has leading binders.
Applied(s) ==
    IF s.k = "lam" /\ s.b.k = "lam" THEN {SkApp(SkApp(s, SkTrue), SkFalse)}
    ELSE IF s.k = "lam" THEN {SkApp(s, SkTrue)}
    ELSE {}

Skeletons ==
    LET closed == UNION {SkeletonsOfSize(n, 0) : n \in 1..MaxSkeleton} IN
    closed \cup UNION {Applied(s) : s \in closed}

\* The token strings of skeleton s under binders named ctx (innermost
\* first), one for each choice of names that captures no variable.
RECURSIVE Written(_, _)
Written(s, ctx) ==
    CASE s.k = "true" -> {<<"true">>}
      [] s.k = "false" -> {<<"false">>}
      [] s.k = "var" ->
           IF \A j \in 1..s.i : ctx[j] # ctx[s.i + 1]
             THEN {<<ctx[s.i + 1]>>} ELSE {}
      [] s.k = "lam" ->
           UNION {{Paren(<<"l", n, ":", "Bool", ".">> \o b)
                   : b \in Written(s.b, <<n>> \o ctx)} : n \in BinderNames}
      [] s.k = "app" ->
           {Paren(f \o a) : f \in Written(s.f, ctx), a \in Written(s.a, ctx)}

AlphaSources == UNION {Written(s, <<>>) : s \in Skeletons}

\* The programs that differ from `tokens` in the names of binders only.
Renamings(tokens) ==
    UNION {Written(s, <<>>) : s \in {k \in Skeletons : tokens \in Written(k, <<>>)}}

(***************************************************************************)
(* Two runs of the pipeline, one after the other: a program, and then a    *)
(* renaming of it or the printed text of the term it was parsed into.      *)
(***************************************************************************)
InitAgain ==
    /\ token_strings_ \in AlphaSources \cup Sources \cup Corpus
    /\ current_token_ = 0
    /\ term_stack = <<EmptyTerm>>
    /\ stack_size_on_open_paren = <<>>
    /\ bound_variables = <<>>
    /\ balance_parens = 0
    /\ pc = "parsing"
    /\ parsed = NullTerm
    /\ program = NullTerm
    /\ steps = 0
    /\ result = NoResult
    /\ first = NoFirst
    /\ lexer_calls = <<>>
    /\ store = <<>>
    /\ store_log = <<>>
    /\ InitPools

\* A new Lexer and Parser on the input `tokens`, the run before it being
\* remembered.
RunAgain(how, tokens) ==
    /\ first' = [ran |-> TRUE, how |-> how, token_strings |-> token_strings_,
                 pc |-> pc, parsed |-> parsed, program |-> program,
                 steps |-> steps, result |-> result]
    /\ token_strings_' = tokens
    /\ current_token_' = 0
    /\ term_stack' = <<EmptyTerm>>
    /\ stack_size_on_open_paren' = <<>>
    /\ bound_variables' = <<>>
    /\ balance_parens' = 0
    /\ pc' = "parsing"
    /\ parsed' = NullTerm
    /\ program' = NullTerm
    /\ steps' = 0
    /\ result' = NoResult
    /\ UNCHANGED <<lexer_calls, store_vars, pool_vars>>

\* The first run over, a renaming of the program is run.
ParseRenamed ==
    /\ ~first.ran
    /\ pc \in {"parse_error", "done", "threw"}
    /\ \E tokens \in Renamings(token_strings_) \ {token_strings_} :
          RunAgain("renamed", tokens)

\* The term ParseProgram returned is printed and the text is parsed.
ParsePrinted ==
    /\ ~first.ran
    /\ pc = "parsed"
    /\ RunAgain("printed", LexerStrings(PrintTerm(parsed)))

NextAgain == ParseToken \/ ParseFinish \/ EvalStep \/ ParseRenamed \/ ParsePrinted

SpecAgain == InitAgain /\ [][NextAgain]_vars

(***************************************************************************)
(* The lexer alone: NextToken and PutBackToken called in any order on an   *)
(* input, each call and the token it returned being remembered.            *)
(***************************************************************************)
LexerInputs == ChunkInputs(MaxLexerInput)

InitLexer ==
    /\ token_strings_ \in LexerInputs
    /\ current_token_ = 0
    /\ term_stack = <<EmptyTerm>>
    /\ stack_size_on_open_paren = <<>>
    /\ bound_variables = <<>>
    /\ balance_parens = 0
    /\ pc = "lexing"
    /\ parsed = NullTerm
    /\ program = NullTerm
    /\ steps = 0
    /\ result = NoResult
    /\ first = NoFirst
    /\ lexer_calls = <<>>
    /\ store = <<>>
    /\ store_log = <<>>
    /\ InitPools

\* Lexer::NextToken
NextToken ==
    /\ pc = "lexing"
    /\ Len(lexer_calls) < MaxLexerCalls
    /\ lexer_calls' = Append(lexer_calls, [op |-> "NextToken",
                                           token |-> TokenAt(current_token_)])
    /\ current_token_' = AfterNext(current_token_)
    /\ UNCHANGED <<token_strings_, parser_vars, pc, parsed, program, steps, result,
                   first, store_vars, pool_vars>>

\* Lexer::PutBackToken
PutBackToken ==
    /\ pc = "lexing"
    /\ Len(lexer_calls) < MaxLexerCalls
    /\ lexer_calls' = Append(lexer_calls, [op |-> "PutBackToken"])
    /\ current_token_' = AfterPutBack(current_token_)
    /\ UNCHANGED <<token_strings_, parser_vars, pc, parsed, program, steps, result,
                   first, store_vars, pool_vars>>

NextLexer == NextToken \/ PutBackToken

SpecLexer == InitLexer /\ [][NextLexer]_vars

(***************************************************************************)
(* Subtyping, meet and join, on the values of types.  Top is the type      *)
(* above every type; IllTyped stands for "no type".                        *)
(***************************************************************************)
\* The type Top of the specification, which the code of this chapter lacks.
TypeTop == [category |-> "TOP"]

IsTop(t) == t.category = "TOP"

IsNoType(t) == t.category = "ILL"

\* The position of the field labelled `label`, 0 when there is none.
RECURSIVE FieldAt(_, _, _)
FieldAt(fields, label, i) ==
    IF i > Len(fields) THEN 0
    ELSE IF fields[i][1] = label THEN i
    ELSE FieldAt(fields, label, i + 1)

HasField(fields, label) == FieldAt(fields, label, 1) # 0

FieldType(fields, label) == fields[FieldAt(fields, label, 1)][2]

\* The fields of `fields` that satisfy Keep, in their order.
RECURSIVE SelectFields(_, _, _)
SelectFields(fields, Keep(_), i) ==
    IF i > Len(fields) THEN <<>>
    ELSE (IF Keep(fields[i]) THEN <<fields[i]>> ELSE <<>>)
         \o SelectFields(fields, Keep, i + 1)

\* S <: T, were the fields of two record types compared in their order.
RECURSIVE IsSubtypeInOrder(_, _)
IsSubtypeInOrder(s, t) ==
    IF IsNoType(s) \/ IsNoType(t) THEN IsNoType(s) /\ IsNoType(t)
    ELSE IF IsTop(t) THEN TRUE
    ELSE IF IsFunction(s) /\ IsFunction(t)
      THEN IsSubtypeInOrder(t.lhs, s.lhs) /\ IsSubtypeInOrder(s.rhs, t.rhs)
    ELSE IF IsRecord(s) /\ IsRecord(t)
      THEN /\ Len(t.record_fields) <= Len(s.record_fields)
           /\ \A i \in 1..Len(t.record_fields) :
                 /\ s.record_fields[i][1] = t.record_fields[i][1]
                 /\ IsSubtypeInOrder(s.record_fields[i][2], t.record_fields[i][2])
    ELSE s = t

\* S <: T
RECURSIVE IsSubtype(_, _)
IsSubtype(s, t) ==
    IF IsNoType(s) \/ IsNoType(t) THEN IsNoType(s) /\ IsNoType(t)
    ELSE IF IsTop(t) THEN TRUE
    ELSE IF IsFunction(s) /\ IsFunction(t)
      THEN IsSubtype(t.lhs, s.lhs) /\ IsSubtype(s.rhs, t.rhs)
    ELSE IF IsRecord(s) /\ IsRecord(t)
      THEN \A i \in 1..Len(t.record_fields) :
              /\ HasField(s.record_fields, t.record_fields[i][1])
              /\ IsSubtype(FieldType(s.record_fields, t.record_fields[i][1]),
                           t.record_fields[i][2])
    ELSE s = t

RECURSIVE Join(_, _)
RECURSIVE Meet(_, _)

\* The join of two function types, `meet` being the meet of the domains.
JoinFunctions(meet, s, t) ==
    IF IsNoType(meet) THEN TypeIllTyped
    ELSE TypeFunction(meet, Join(s.rhs, t.rhs))

\* The meet of two function types, `meet` being the meet of the codomains.
MeetFunctions(meet, s, t) ==
    IF IsNoType(meet) THEN TypeIllTyped
    ELSE TypeFunction(Join(s.lhs, t.lhs), meet)

\* The fields of s whose labels t has too, each with the join of the two
\* types.
JoinFields(s, t) ==
    LET Common(field) == HasField(t.record_fields, field[1])
        common == SelectFields(s.record_fields, Common, 1)
    IN  [i \in 1..Len(common) |->
            <<common[i][1],
              Join(common[i][2], FieldType(t.record_fields, common[i][1]))>>]

\* The fields of s, those that t has too with the meet of the two types,
\* and then the fields of t alone.
MeetFields(s, t) ==
    LET Alone(field) == ~HasField(s.record_fields, field[1]) IN
    [i \in 1..Len(s.record_fields) |->
        IF HasField(t.record_fields, s.record_fields[i][1])
          THEN <<s.record_fields[i][1],
                 Meet(s.record_fields[i][2],
                      FieldType(t.record_fields, s.record_fields[i][1]))>>
          ELSE s.record_fields[i]]
    \o SelectFields(t.record_fields, Alone, 1)

MeetRecord(fields) ==
    IF \E i \in 1..Len(fields) : IsNoType(fields[i][2]) THEN TypeIllTyped
    ELSE TypeRecord(fields)

\* join(S, T)
Join(s, t) ==
    IF IsNoType(s) \/ IsNoType(t) THEN TypeIllTyped
    ELSE IF s = t THEN s
    ELSE IF IsFunction(s) /\ IsFunction(t)
      THEN JoinFunctions(Meet(s.lhs, t.lhs), s, t)
    ELSE IF IsRecord(s) /\ IsRecord(t) THEN TypeRecord(JoinFields(s, t))
    ELSE TypeTop

\* meet(S, T); IllTyped when there is none.
Meet(s, t) ==
    IF IsNoType(s) \/ IsNoType(t) THEN TypeIllTyped
    ELSE IF s = t THEN s
    ELSE IF IsTop(s) THEN t
    ELSE IF IsTop(t) THEN s
    ELSE IF IsFunction(s) /\ IsFunction(t)
      THEN MeetFunctions(Meet(s.rhs, t.rhs), s, t)
    ELSE IF IsRecord(s) /\ IsRecord(t) THEN MeetRecord(MeetFields(s, t))
    ELSE TypeIllTyped

(***************************************************************************)
(* The factories called in any order and the join taken of the types they  *)
(* returned.                                                               *)
(***************************************************************************)
BaseInstances == {Static("Bool"), Static("Nat")}

RecordInstances == {Pooled("Record", i) : i \in 1..Len(record_pool)}

\* The field lists of one and of two fields, of base types.
BaseFieldLists ==
    {<< <<name, type>> >> : name \in FieldNames, type \in BaseInstances}
    \cup UNION {{<< <<n1, t1>>, <<n2, t2>> >> :
                    n2 \in FieldNames \ {n1},
                    t1 \in BaseInstances, t2 \in BaseInstances}
                 : n1 \in FieldNames}

CallFunctionOfBase ==
    \E lhs \in BaseInstances \cup RecordInstances,
       rhs \in BaseInstances \cup RecordInstances : CallFunction(lhs, rhs)

CallRecordOfBase == \E fields \in BaseFieldLists : CallRecord(fields)

\* The join of two types the factories returned; the history remembers the
\* call with the type that is the join.
CallJoin ==
    /\ Len(calls) < MaxCalls
    /\ \E s \in Instances, t \in Instances :
          calls' = Append(calls, Call("Join", <<s, t>>, Join(Object(s), Object(t))))
    /\ UNCHANGED <<function_pool, record_pool>>
    /\ UNCHANGED program_vars

NextSubtypes == CallBool \/ CallNat \/ CallFunctionOfBase \/ CallRecordOfBase \/ CallJoin

SpecSubtypes == InitTypes /\ [][NextSubtypes]_vars

(***************************************************************************)
(* Properties.  They speak of the subterms of a term, each with the        *)
(* binders around it: the context TypeOf reaches it with, innermost first. *)
(***************************************************************************)
RECURSIVE Subterms(_, _)
Subterms(term, ctx) ==
    {[term |-> term, ctx |-> ctx]} \cup
    CASE IsLambda(term) ->
           Subterms(term.lambda_body,
                    <<(<<term.lambda_arg_name, term.lambda_arg_type>>)>> \o ctx)
      [] IsApplication(term) ->
           Subterms(term.application_lhs, ctx) \cup Subterms(term.application_rhs, ctx)
      [] IsIf(term) ->
           Subterms(term.if_condition, ctx) \cup Subterms(term.if_then, ctx)
               \cup Subterms(term.if_else, ctx)
      [] IsSucc(term) \/ IsPred(term) \/ IsIsZero(term) ->
           Subterms(term.unary_op_arg, ctx)
      [] OTHER -> {}

\* The occurrences of variables in the term ParseProgram returned.
Occurrences == {o \in Subterms(parsed, <<>>) : IsVariable(o.term)}

\* The places (0 = innermost) of the binders around o that bind its name.
Binders(o) == {i \in 0..(Len(o.ctx) - 1) : o.ctx[i + 1][1] = o.term.variable_name}

InScope(o) == Binders(o) # {}

\* The innermost binder of the name of o, o being in scope.
Innermost(o) == CHOOSE i \in Binders(o) : \A j \in Binders(o) : i <= j

\* The character of a one-character identifier.
Letter(o) == Chars(o.term.variable_name)[1]

OneCharacter(o) == Len(Chars(o.term.variable_name)) = 1

\* C1: when ParseProgram meets an identifier that is in scope, the index of
\* the variable is the number of binders between the occurrence and the
\* innermost enclosing binder of that name, also when abstractions that
\* bind the same name are nested.
C1_InnermostBinder ==
    pc = "parsed" =>
        \A o \in Occurrences : InScope(o) => o.term.de_bruijn_idx = Innermost(o)

\* The program `l x:Bool. l x:Nat. x` parsed, x having the index of the outer
\* binder.
C1_ShadowedParsed ==
    /\ pc = "parsed"
    /\ token_strings_ = <<"l", "x", ":", "Bool", ".", "l", "x", ":", "Nat", ".", "x">>
    /\ \E o \in Occurrences : Len(o.ctx) = 2 /\ o.term.de_bruijn_idx = 1

\* The index the parser gives a free one-character identifier under n binders.
FreeIndex(o) == Len(o.ctx) + (ToLower(Letter(o)) - LowerA)

FreeOccurrences == {o \in Occurrences : ~InScope(o) /\ OneCharacter(o)}

FreeLetters == {o \in FreeOccurrences : IsAlpha(Letter(o))}

\* C2, as stated: a free one-character identifier c under n binders gets the
\* index n + (lowercase(c) - 'a'), and two different free letters at the
\* same binder depth never get the same index.
C2_DistinctLetters ==
    pc = "parsed" =>
        /\ \A o \in FreeOccurrences : o.term.de_bruijn_idx = FreeIndex(o)
        /\ \A o1, o2 \in FreeLetters :
              (Len(o1.ctx) = Len(o2.ctx) /\ Letter(o1) # Letter(o2))
                  => o1.term.de_bruijn_idx # o2.term.de_bruijn_idx

\* C2, amended: a free one-character identifier c under n binders gets the
\* index n + (lowercase(c) - 'a'); two free letters at the same binder depth
\* get the same index exactly when they are the same letter up to case.
C2_FreeIndex ==
    pc = "parsed" =>
        /\ \A o \in FreeOccurrences : o.term.de_bruijn_idx = FreeIndex(o)
        /\ \A o1, o2 \in FreeLetters :
              Len(o1.ctx) = Len(o2.ctx) =>
                  (o1.term.de_bruijn_idx = o2.term.de_bruijn_idx
                      <=> ToLower(Letter(o1)) = ToLower(Letter(o2)))

\* Two free letters that differ by more than case, under one binder.
C2_TwoFreeLetters ==
    /\ pc = "parsed"
    /\ \E o1, o2 \in FreeLetters :
          /\ Len(o1.ctx) = 1 /\ Len(o2.ctx) = 1
          /\ ToLower(Letter(o1)) # ToLower(Letter(o2))
          /\ o1.term.de_bruijn_idx # o2.term.de_bruijn_idx

\* C3: every variable of a term returned by ParseProgram has a non-negative
\* index: smaller than the number of enclosing binders when it is bound, at
\* least that number when it is free.
C3_IndexRange ==
    pc = "parsed" =>
        \A o \in Occurrences :
            /\ o.term.de_bruijn_idx >= 0
            /\ InScope(o) => o.term.de_bruijn_idx < Len(o.ctx)
            /\ ~InScope(o) => o.term.de_bruijn_idx >= Len(o.ctx)

\* The program `_` parsed: a free variable with a negative index.
C3_UnderscoreParsed ==
    /\ pc = "parsed"
    /\ token_strings_ = <<"_">>
    /\ \E o \in Occurrences : ~InScope(o) /\ o.term.de_bruijn_idx < 0

\* Two argument lists of one factory, structurally equal.
SameArgs(c1, c2) ==
    /\ c1.factory = c2.factory
    /\ Len(c1.args) = Len(c2.args)
    /\ IF c1.factory = "Record"
         THEN \A i \in 1..Len(c1.args) :
                 /\ c1.args[i][1] = c2.args[i][1]
                 /\ SameType(c1.args[i][2], c2.args[i][2])
         ELSE \A i \in 1..Len(c1.args) : SameType(c1.args[i], c2.args[i])

\* The instances the factories have returned or hold in their pools.
Obtained == {calls[i].instance : i \in 1..Len(calls)} \cup Instances

\* C4: after any sequence of calls of the factories, two calls with
\* structurally equal arguments have returned the same instance, no pool
\* holds two structurally equal types, and operator== on two instances
\* obtained from the factories is true exactly when they are one instance.
C4_Interned ==
    /\ \A i, j \in 1..Len(calls) :
          SameArgs(calls[i], calls[j]) => calls[i].instance = calls[j].instance
    /\ \A i, j \in 1..Len(function_pool) :
          SameType(Pooled("Function", i), Pooled("Function", j)) => i = j
    /\ \A i, j \in 1..Len(record_pool) :
          SameType(Pooled("Record", i), Pooled("Record", j)) => i = j
    /\ \A a, b \in Obtained : SameType(a, b) <=> a = b

\* Type::Function called twice with the instance of a function type as an
\* argument, and Type::Record called with the instance both calls returned.
C4_CalledAgain ==
    \E i, j, k \in 1..Len(calls) :
        /\ i < j /\ j < k
        /\ calls[i].factory = "Function" /\ calls[j].factory = "Function"
        /\ calls[i].args = calls[j].args
        /\ calls[i].instance = calls[j].instance
        /\ calls[k].factory = "Record"
        /\ Len(calls[k].args) = 1
        /\ calls[k].args[1][2] = calls[i].instance
        /\ Len(function_pool) = 1 /\ Len(record_pool) = 1

\* The type TypeOf gives a subterm in its context.
TypeIn(s) == TypeOfIn(s.ctx, s.term)

\* A variable whose index points at no binder of its name.
MisNamed(s) ==
    \/ s.term.de_bruijn_idx < 0
    \/ s.term.de_bruijn_idx >= Len(s.ctx)
    \/ s.ctx[s.term.de_bruijn_idx + 1][1] # s.term.variable_name

\* The typing violations of a subterm, its children being typed.
Violation(s) ==
    CASE IsVariable(s.term) -> ~InScope(s) \/ MisNamed(s)
      [] IsIf(s.term) ->
           \/ ~TypeEq(TypeOfIn(s.ctx, s.term.if_condition), TypeBool)
           \/ ~TypeEq(TypeOfIn(s.ctx, s.term.if_then), TypeOfIn(s.ctx, s.term.if_else))
      [] IsSucc(s.term) \/ IsPred(s.term) \/ IsIsZero(s.term) ->
           ~TypeEq(TypeOfIn(s.ctx, s.term.unary_op_arg), TypeNat)
      [] IsApplication(s.term) ->
           \/ ~IsFunction(TypeOfIn(s.ctx, s.term.application_lhs))
           \/ ~TypeEq(TypeOfIn(s.ctx, s.term.application_lhs).lhs,
                      TypeOfIn(s.ctx, s.term.application_rhs))
      [] OTHER -> FALSE

JoinBase(a, b) == IF TypeEq(a, b) THEN a ELSE TypeTop

IsBase(t) == IsBool(t) \/ IsNat(t)

\* C6: the type of `if c then a else b` whose condition has type Bool is the
\* join of the types of the arms; arms of types Bool and Nat give Top.
C6_IfJoin ==
    pc = "parsed" =>
        \A s \in Subterms(parsed, <<>>) :
            (/\ IsIf(s.term)
             /\ TypeEq(TypeOfIn(s.ctx, s.term.if_condition), TypeBool)
             /\ IsBase(TypeOfIn(s.ctx, s.term.if_then))
             /\ IsBase(TypeOfIn(s.ctx, s.term.if_else)))
                => TypeIn(s) = JoinBase(TypeOfIn(s.ctx, s.term.if_then),
                                        TypeOfIn(s.ctx, s.term.if_else))

\* The program `if false then true else succ succ 0` parsed and typed
\* IllTyped.
C6_BoolNatArmsIllTyped ==
    /\ pc = "parsed"
    /\ token_strings_ = <<"if", "false", "then", "true", "else", "succ", "succ", "0">>
    /\ IsIf(parsed)
    /\ IsBool(TypeOf(parsed.if_then)) /\ IsNat(TypeOf(parsed.if_else))
    /\ TypeOf(parsed) = TypeIllTyped

\* C7: the type Interpret returns is the type of the program as it stood
\* before any evaluation step.
C7_PreEvaluationType ==
    (pc = "done" /\ result.returned) => TypeEq(result.type, TypeOf(parsed))

\* Interpret returned for `(l x:Bool. x) if false then true else l x:Bool. x`:
\* the program is IllTyped before evaluation, the type returned is Bool -> Bool.
C7_PostEvaluationType ==
    /\ pc = "done"
    /\ token_strings_ = <<"(", "l", "x", ":", "Bool", ".", "x", ")", "if", "false",
                          "then", "true", "else", "l", "x", ":", "Bool", ".", "x">>
    /\ TypeOf(parsed) = TypeIllTyped
    /\ result.type = TypeFunction(TypeBool, TypeBool)

\* A term all of whose variables point at a binder around them.
Closed(term) ==
    \A o \in Subterms(term, <<>>) :
        IsVariable(o.term) =>
            o.term.de_bruijn_idx >= 0 /\ o.term.de_bruijn_idx < Len(o.ctx)

RECURSIVE HasIllTyped(_)
HasIllTyped(type) ==
    CASE type.category = "ILL" -> TRUE
      [] type.category = "FUNCTION" -> HasIllTyped(type.lhs) \/ HasIllTyped(type.rhs)
      [] type.category = "RECORD" ->
           \E i \in 1..Len(type.record_fields) : HasIllTyped(type.record_fields[i][2])
      [] OTHER -> FALSE

\* The program ParseProgram returned is closed and its type has no IllTyped.
WellTypedClosed ==
    /\ ~IsNull(parsed)
    /\ Closed(parsed)
    /\ ~IsFault(TypeOf(parsed))
    /\ ~HasIllTyped(TypeOf(parsed))

\* C8: subject reduction.  An Eval1 step that rewrites a term reached from a
\* closed program without IllTyped in its type keeps the type; hence the
\* type is that of the parsed program in every state of its evaluation.
C8_SubjectReduction ==
    /\ [][(WellTypedClosed /\ pc \in {"parsed", "eval"} /\ pc' = "eval")
              => TypeEq(TypeOf(program'), TypeOf(program))]_vars
    /\ []((WellTypedClosed /\ pc \in {"parsed", "eval", "done"})
              => TypeEq(TypeOf(program), TypeOf(parsed)))

\* A closed, well-typed application of an abstraction evaluated to the end in
\* two steps or more, one of them the substitution.
C8_Reduced ==
    /\ pc = "done"
    /\ WellTypedClosed
    /\ IsApplication(parsed) /\ IsLambda(parsed.application_lhs)
    /\ steps >= 2
    /\ IsValue(program)

\* C9: progress.  Every term reached by Eval1 steps from a closed program
\* without IllTyped in its type is a value, or Eval1 rewrites it: the call
\* ends in no exception.
C9_Progress ==
    (WellTypedClosed /\ pc \in {"parsed", "eval"})
        => (IsValue(program) \/ Eval1(program).ex = "none")

\* `(l x:Nat->Nat. x) l y:Nat. pred y`: closed, of type Nat -> Nat, not a
\* value, and Eval1 ended in std::logic_error.
C9_CloneThrew ==
    /\ pc = "threw"
    /\ WellTypedClosed
    /\ token_strings_ = <<"(", "l", "x", ":", "Nat", "->", "Nat", ".", "x", ")",
                          "l", "y", ":", "Nat", ".", "pred", "y">>
    /\ ~IsValue(program)
    /\ Eval1(program).ex = "logic_error"

\* C10: no exception leaves Interpret, and the step that finds no applicable
\* rule leaves the term as it was.
C10_NoExceptionLeaves ==
    [][pc' # "threw" /\ (pc' = "done" => program' = program)]_vars

\* An exception left Interpret on
\* `(l f:Bool->Bool. f true) l y:Bool. if y then false else true`.
C10_ExceptionLeft ==
    /\ pc = "threw"
    /\ ~result.returned
    /\ token_strings_ = <<"(", "l", "f", ":", "Bool", "->", "Bool", ".", "f", "true",
                          ")", "l", "y", ":", "Bool", ".", "if", "y", "then",
                          "false", "else", "true">>

(***************************************************************************)
(* Two runs compared.                                                      *)
(***************************************************************************)
\* The program after k calls of Eval1 that rewrote it.
RECURSIVE EvalTrace(_, _)
EvalTrace(term, k) == IF k = 0 THEN term ELSE EvalTrace(Eval1(term).t, k - 1)

Renamed == first.ran /\ first.how = "renamed"

Printed == first.ran /\ first.how = "printed"

\* C11: two programs that differ only in a capture-free renaming of bound
\* names are parsed into terms equal under Term::operator==, their
\* evaluations go through equal terms at every step, and they return equal
\* results.
C11_AlphaEquivalent ==
    Renamed =>
      /\ pc = "parse_error" => first.pc = "parse_error"
      /\ pc \in {"parsed", "eval", "done", "threw"} =>
            /\ first.pc # "parse_error"
            /\ TermEq(parsed, first.parsed)
      /\ pc \in {"parsed", "eval"} /\ steps <= first.steps =>
            TermEq(program, EvalTrace(first.parsed, steps))
      /\ pc \in {"done", "threw"} =>
            /\ pc = first.pc
            /\ steps = first.steps
            /\ TermEq(program, first.program)
            /\ result.returned = first.result.returned
            /\ result.returned =>
                  /\ TermEq(result.term, first.result.term)
                  /\ TypeEq(result.type, first.result.type)

\* A renaming of a program with a shadowed binder was parsed and evaluated
\* after the program itself.
C11_RenamedEvaluated ==
    /\ Renamed
    /\ first.token_strings =
          <<"(", "(", "(", "l", "x", ":", "Bool", ".", "(", "l", "y", ":", "Bool",
            ".", "y", ")", ")", "true", ")", "false", ")">>
    /\ token_strings_ =
          <<"(", "(", "(", "l", "x", ":", "Bool", ".", "(", "l", "x", ":", "Bool",
            ".", "x", ")", ")", "true", ")", "false", ")">>
    /\ pc = "done"

\* C12: for every term t returned by ParseProgram, parsing the text that
\* operator<< prints for t succeeds and gives a term equal to t.
C12_PrintParseRoundTrip ==
    Printed =>
      /\ pc # "parse_error"
      /\ pc \in {"parsed", "eval", "done", "threw"} => TermEq(parsed, first.parsed)

\* The printed text of a parsed conditional went through the lexer and the
\* parser, and was accepted.
C12_PrintedParsed ==
    /\ Printed
    /\ IsIf(first.parsed)
    /\ pc = "parsed"

(***************************************************************************)
(* Delimiters of the input.                                                *)
(***************************************************************************)
Accepted == pc \in {"parsed", "eval", "done", "threw"}

\* From token i on, with `depth` parentheses open: no `)` without an
\* earlier unmatched `(`, and no `(` left open at the end.
RECURSIVE NestedFrom(_, _, _)
NestedFrom(tokens, i, depth) ==
    IF i > Len(tokens) THEN depth = 0
    ELSE IF tokens[i] = "(" THEN NestedFrom(tokens, i + 1, depth + 1)
    ELSE IF tokens[i] = ")" THEN depth > 0 /\ NestedFrom(tokens, i + 1, depth - 1)
    ELSE NestedFrom(tokens, i + 1, depth)

ProperlyNested(tokens) == NestedFrom(tokens, 1, 0)

\* The last "(" of the open delimiters, 0 when there is none.
LastParen(open) ==
    IF \E k \in 1..Len(open) : open[k] = "("
      THEN CHOOSE k \in 1..Len(open) :
              open[k] = "(" /\ \A j \in (k + 1)..Len(open) : open[j] # "("
      ELSE 0

\* From token i on, `open` being the parentheses and conditionals open so
\* far ("if": no then yet; "then": no else yet): every `then` and `else`
\* continues the innermost open conditional of its nesting level, and no
\* conditional is left without them by a `)` or by the end of the input.
RECURSIVE DelimitedFrom(_, _, _)
DelimitedFrom(tokens, i, open) ==
    IF i > Len(tokens) THEN \A k \in 1..Len(open) : open[k] = "("
    ELSE CASE tokens[i] = "(" -> DelimitedFrom(tokens, i + 1, Append(open, "("))
           [] tokens[i] = "if" -> DelimitedFrom(tokens, i + 1, Append(open, "if"))
           [] tokens[i] = "then" ->
                /\ open # <<>> /\ Back(open) = "if"
                /\ DelimitedFrom(tokens, i + 1, SetBack(open, "then"))
           [] tokens[i] = "else" ->
                /\ open # <<>> /\ Back(open) = "then"
                /\ DelimitedFrom(tokens, i + 1, PopBack(open))
           [] tokens[i] = ")" ->
                IF LastParen(open) = 0 THEN DelimitedFrom(tokens, i + 1, open)
                ELSE /\ LastParen(open) = Len(open)
                     /\ DelimitedFrom(tokens, i + 1, PopBack(open))
           [] OTHER -> DelimitedFrom(tokens, i + 1, open)

IfsDelimited(tokens) == DelimitedFrom(tokens, 1, <<>>)

\* C13: ParseProgram throws for every input whose parentheses are not
\* properly nested (a `)` without an earlier unmatched `(`, or a `(` that is
\* never closed).
C13_UnbalancedRejected == Accepted => ProperlyNested(token_strings_)

\* ParseProgram threw on an input with a `(` that is never closed and on
\* nothing else wrong.
C13_UnclosedThrew ==
    /\ pc = "parse_error"
    /\ token_strings_ = <<"(", "x">>

\* C14: ParseProgram throws for every input in which an `if` is not
\* followed, at its own nesting level, by a `then` and then an `else`.
C14_IfThenElseRequired == Accepted => IfsDelimited(token_strings_)

\* ParseProgram threw on a conditional in parentheses with a `)` in the
\* place of its `else`.
C14_MissingElseThrew ==
    /\ pc = "parse_error"
    /\ token_strings_ = <<"(", "if", "true", "then", "0", ")", "0">>

(***************************************************************************)
(* The grammar of terms: application is the juxtaposition of atoms,        *)
(* left-associative; the body of an abstraction and the else branch of a   *)
(* conditional extend to the next closing delimiter.                       *)
(***************************************************************************)
ClosingDelimiters == {")", "then", "else"}

\* The index of the variable `name` under the binders `bound` (outermost
\* first): the distance to its innermost binder, or its place in the naming
\* context of the free variables.
RECURSIVE GrammarIndex(_, _, _)
GrammarIndex(bound, name, k) ==
    IF k = 0 THEN Len(bound) + (ToLower(Chars(name)[1]) - LowerA)
    ELSE IF bound[k] = name THEN Len(bound) - k
    ELSE GrammarIndex(bound, name, k - 1)

\* The application of what was read so far to the next atom.
Juxtapose(acc, atom) == IF IsNull(acc) THEN atom ELSE Application(acc, atom)

GrammarRead(term, pos) == [term |-> term, pos |-> pos]

\* app := atom atom*, read from token i up to a closing delimiter or the end
\* of the input, `acc` being the application read so far.
RECURSIVE GrammarApp(_, _, _, _)

GrammarLambda(tokens, i, bound, acc, body) ==
    GrammarRead(Juxtapose(acc, [Lambda(tokens[i + 1], TypeBool)
                                  EXCEPT !.lambda_body = body.term,
                                         !.is_complete_lambda = TRUE]),
                body.pos)

GrammarElse(acc, cond, then, else) ==
    GrammarRead(Juxtapose(acc, [If EXCEPT !.if_condition = cond.term,
                                          !.if_then = then.term,
                                          !.if_else = else.term]),
                else.pos)

GrammarThen(tokens, bound, acc, cond, then) ==
    GrammarElse(acc, cond, then, GrammarApp(tokens, then.pos + 1, bound, NullTerm))

GrammarIf(tokens, bound, acc, cond) ==
    GrammarThen(tokens, bound, acc, cond,
                GrammarApp(tokens, cond.pos + 1, bound, NullTerm))

GrammarParen(tokens, bound, acc, inner) ==
    GrammarApp(tokens, inner.pos + 1, bound, Juxtapose(acc, inner.term))

GrammarApp(tokens, i, bound, acc) ==
    IF i > Len(tokens) \/ tokens[i] \in ClosingDelimiters THEN GrammarRead(acc, i)
    ELSE CASE tokens[i] = "(" ->
                GrammarParen(tokens, bound, acc,
                             GrammarApp(tokens, i + 1, bound, NullTerm))
           [] tokens[i] = "l" ->
                GrammarLambda(tokens, i, bound, acc,
                              GrammarApp(tokens, i + 5, Append(bound, tokens[i + 1]),
                                         NullTerm))
           [] tokens[i] = "if" ->
                GrammarIf(tokens, bound, acc,
                          GrammarApp(tokens, i + 1, bound, NullTerm))
           [] tokens[i] = "true" ->
                GrammarApp(tokens, i + 1, bound, Juxtapose(acc, True))
           [] tokens[i] = "false" ->
                GrammarApp(tokens, i + 1, bound, Juxtapose(acc, False))
           [] tokens[i] = "0" ->
                GrammarApp(tokens, i + 1, bound, Juxtapose(acc, Zero))
           [] OTHER ->
                GrammarApp(tokens, i + 1, bound,
                           Juxtapose(acc, Variable(tokens[i],
                                                   GrammarIndex(bound, tokens[i],
                                                                Len(bound)))))

GrammarTerm(tokens) == GrammarApp(tokens, 1, <<>>, NullTerm).term

\* C15: application binds tighter than the branches of a conditional: in
\* `if c then a else f x` the else branch is the application of f to x, and
\* every atom after `else` up to the next closing delimiter belongs to it.
C15_ElseBranchApplication ==
    token_strings_ \in ElseApplications /\ Accepted =>
        TermEq(parsed, GrammarTerm(token_strings_))

\* `if true then 0 else a b` was parsed.
C15_ElseApplicationParsed ==
    /\ token_strings_ = <<"if", "true", "then", "0", "else", "a", "b">>
    /\ pc = "parsed"

\* C16: application is left-associative and the body of an abstraction
\* extends as far right as possible: a juxtaposition of variables, alone or
\* as the body of an abstraction, is accepted and parsed into the
\* left-nested applications, with everything after `l y:Bool.` in the body.
C16_LeftAssociative ==
    token_strings_ \in Juxtapositions =>
        /\ pc # "parse_error"
        /\ Accepted => TermEq(parsed, GrammarTerm(token_strings_))

\* `(l x:Bool. x) l y:Bool. a b l z:Bool. z` was parsed into the application
\* of the first abstraction to the second, whose body holds the rest.
C16_BodyExtendsRight ==
    /\ token_strings_ = <<"(", "l", "x", ":", "Bool", ".", "x", ")",
                          "l", "y", ":", "Bool", ".", "a", "b",
                          "l", "z", ":", "Bool", ".", "z">>
    /\ pc = "parsed"
    /\ IsApplication(parsed)
    /\ IsLambda(parsed.application_rhs)
    /\ IsApplication(parsed.application_rhs.lambda_body)
    /\ IsLambda(parsed.application_rhs.lambda_body.application_rhs)

(***************************************************************************)
(* The grammar of types: type := tatom ('->' tatom)*, right-associative.   *)
(***************************************************************************)
GrammarTyped(type, pos) == [type |-> type, pos |-> pos]

RECURSIVE GrammarType(_, _)

\* The type in parentheses, read up to its `)`.
GrammarTypeParen(inner) == GrammarTyped(inner.type, inner.pos + 1)

\* tatom := 'Bool' | 'Nat' | '(' type ')', read from token i.
GrammarTypeAtom(tokens, i) ==
    CASE tokens[i] = "Bool" -> GrammarTyped(TypeBool, i + 1)
      [] tokens[i] = "Nat" -> GrammarTyped(TypeNat, i + 1)
      [] tokens[i] = "(" -> GrammarTypeParen(GrammarType(tokens, i + 1))
      [] OTHER -> GrammarTyped(TypeIllTyped, i + 1)

GrammarArrow(atom, rest) ==
    GrammarTyped(TypeFunction(atom.type, rest.type), rest.pos)

\* The atom read, the type is the atom, or the function from it to the type
\* that follows the arrow.
GrammarTypeAfter(tokens, atom) ==
    IF atom.pos <= Len(tokens) /\ tokens[atom.pos] = "->"
      THEN GrammarArrow(atom, GrammarType(tokens, atom.pos + 1))
      ELSE atom

GrammarType(tokens, i) == GrammarTypeAfter(tokens, GrammarTypeAtom(tokens, i))

\* C17: function types are right-associative: a chain of type atoms
\* separated by `->` is parsed into Function(T1, Function(T2, ...)), and a
\* left operand in parentheses is kept as it is.
C17_RightAssociative ==
    token_strings_ \in TypedAbstractions =>
        /\ pc # "parse_error"
        /\ Accepted =>
              /\ IsLambda(parsed)
              /\ TypeEq(parsed.lambda_arg_type, GrammarType(token_strings_, 4).type)

\* `l x:(Bool->Nat)->Bool->Nat. x` was parsed, the type of x being the
\* function from Bool -> Nat to Bool -> Nat.
C17_ChainParsed ==
    /\ token_strings_ = <<"l", "x", ":", "(", "Bool", "->", "Nat", ")", "->",
                          "Bool", "->", "Nat", ".", "x">>
    /\ pc = "parsed"
    /\ parsed.lambda_arg_type =
          TypeFunction(TypeFunction(TypeBool, TypeNat),
                       TypeFunction(TypeBool, TypeNat))

(***************************************************************************)
(* The lexer's put-back.                                                   *)
(***************************************************************************)
IsNextToken(i) == lexer_calls[i].op = "NextToken"

IsPutBack(i) == lexer_calls[i].op = "PutBackToken"

ReturnedEnd(i) == IsNextToken(i) /\ lexer_calls[i].token.category = "MARKER_END"

\* C18: PutBackToken() directly after a NextToken() that returned token k
\* makes the next NextToken() return k again, also when k is the
\* end-of-input marker; and once NextToken() has returned end-of-input it
\* returns end-of-input on every later call with no put-back in between.
C18_OneTokenPutBack ==
    /\ \A i \in 1..(Len(lexer_calls) - 2) :
          IsNextToken(i) /\ IsPutBack(i + 1) /\ IsNextToken(i + 2) =>
              lexer_calls[i + 2].token = lexer_calls[i].token
    /\ \A i \in 1..Len(lexer_calls) : \A j \in (i + 1)..Len(lexer_calls) :
          /\ ReturnedEnd(i)
          /\ IsNextToken(j)
          /\ \A k \in (i + 1)..(j - 1) : ~IsPutBack(k)
          => ReturnedEnd(j)

\* A token other than the end-of-input marker was read, put back and read
\* again.
C18_PutBackRead ==
    /\ Len(lexer_calls) >= 3
    /\ IsNextToken(1) /\ IsPutBack(2) /\ IsNextToken(3)
    /\ lexer_calls[1].token.category = "IDENTIFIER"
    /\ lexer_calls[3].token = lexer_calls[1].token

(***************************************************************************)
(* Join and subtyping.                                                     *)
(***************************************************************************)
IsJoinCall(i) ==
    /\ calls[i].factory = "Join"
    /\ ~HasIllTyped(Object(calls[i].args[1]))
    /\ ~HasIllTyped(Object(calls[i].args[2]))

\* C19: join is an idempotent, commutative upper bound: for all well-formed
\* types S and T, join(S, S) = S, join(S, T) = join(T, S), S <: join(S, T)
\* and T <: join(S, T), also for function types whose domains have no meet.
C19_JoinUpperBound ==
    \A i \in 1..Len(calls) :
        IsJoinCall(i) =>
            /\ calls[i].args[1] = calls[i].args[2] =>
                  calls[i].instance = Object(calls[i].args[1])
            /\ calls[i].instance =
                  Join(Object(calls[i].args[2]), Object(calls[i].args[1]))
            /\ IsSubtype(Object(calls[i].args[1]), calls[i].instance)
            /\ IsSubtype(Object(calls[i].args[2]), calls[i].instance)

\* The join was taken of two function types with one domain and codomains
\* Bool and Nat: it is the function type to Top.
C19_JoinOfFunctions ==
    \E i \in 1..Len(calls) :
        /\ IsJoinCall(i)
        /\ calls[i].args[1] # calls[i].args[2]
        /\ IsFunction(Object(calls[i].args[1]))
        /\ IsFunction(Object(calls[i].args[2]))
        /\ calls[i].instance = TypeFunction(TypeBool, TypeTop)

\* C20: subtyping is antisymmetric on interned types: if S <: T and T <: S
\* for two types obtained from the factories, then S and T are equal under
\* operator== and the same instance, record types that list the same fields
\* in a different order included.
C20_Antisymmetric ==
    \A s \in Instances, t \in Instances :
        IsSubtype(Object(s), Object(t)) /\ IsSubtype(Object(t), Object(s)) =>
            s = t /\ SameType(s, t)

\* Two record types were obtained, one with a field more than the other: it
\* is a subtype of the other and not the other way round.
C20_WidthSubtype ==
    \E s \in RecordInstances, t \in RecordInstances :
        /\ Len(record_pool[s.at]) = 2 /\ Len(record_pool[t.at]) = 1
        /\ IsSubtype(Object(s), Object(t))
        /\ ~IsSubtype(Object(t), Object(s))

(***************************************************************************)
(* Record subtyping.                                                       *)
(***************************************************************************)
\* The labels of a field list, and the types a label has in it.
Labels(fields) == {fields[i][1] : i \in 1..Len(fields)}

TypesAt(fields, label) ==
    {fields[i][2] : i \in {j \in 1..Len(fields) : fields[j][1] = label}}

\* The record types with one field and with two fields made of s and t.
Wrap(s) == TypeRecord(<< <<"c", s>> >>)

WrapBoth(s, t) == TypeRecord(<< <<"d", t>>, <<"c", s>> >>)

\* Every label of t is a label of s with the same type (the fields being of
\* base types, whose only subtype is themselves).
Covers(s, t) ==
    \A label \in Labels(t.record_fields) :
        /\ label \in Labels(s.record_fields)
        /\ TypesAt(s.record_fields, label) = TypesAt(t.record_fields, label)

\* C21: record subtyping holds by width, depth and permutation and in no
\* other case: a record type S is a subtype of a record type T exactly when
\* every label of T occurs in S with a field type that is a subtype of T's
\* field type, whatever the order of the fields.
C21_RecordSubtyping ==
    \A s \in RecordInstances, t \in RecordInstances :
        /\ IsSubtype(Object(s), Object(t)) <=> Covers(Object(s), Object(t))
        /\ IsSubtype(Wrap(Object(s)), Wrap(Object(t)))
              <=> Covers(Object(s), Object(t))
        /\ IsSubtype(WrapBoth(Object(s), Object(t)), Wrap(Object(s)))
        /\ ~IsSubtype(Wrap(Object(s)), WrapBoth(Object(s), Object(t)))

\* Two record types were obtained that list the same two fields in the two
\* orders: each is a subtype of the other.
C21_PermutedRecords ==
    \E s \in RecordInstances, t \in RecordInstances :
        /\ s # t
        /\ Len(record_pool[s.at]) = 2 /\ Len(record_pool[t.at]) = 2
        /\ IsSubtype(Object(s), Object(t))
        /\ IsSubtype(Object(t), Object(s))

(***************************************************************************)
(* Evaluation order.                                                       *)
(***************************************************************************)
\* The values of the specification: abstractions, true, false and the
\* numeric values.
IsSpecValue(term) ==
    IsLambda(term) \/ IsTrue(term) \/ IsFalse(term) \/ IsNatValue(term)

\* The application `term` after a call of Eval1 on one of its two parts.
SteppedLhs(term) ==
    [t |-> [term EXCEPT !.application_lhs = Eval1(term.application_lhs).t],
     ex |-> Eval1(term.application_lhs).ex]

SteppedRhs(term) ==
    [t |-> [term EXCEPT !.application_rhs = Eval1(term.application_rhs).t],
     ex |-> Eval1(term.application_rhs).ex]

CallByValue(term) ==
    IF IsLambda(term.application_lhs) /\ IsSpecValue(term.application_rhs)
      THEN Eval1(term) = BetaStep(term)
    ELSE IF IsSpecValue(term.application_lhs)
      THEN Eval1(term) = SteppedRhs(term)
    ELSE Eval1(term) = SteppedLhs(term)

\* C23: evaluation is call-by-value with the function part first: in an
\* application the argument is stepped only when the function part is a
\* value, the function part is stepped otherwise, and the beta rule fires
\* only when the function part is an abstraction and the argument is a
\* value, the values being abstractions, true, false and the numeric values
\* (a variable is not a value).
C23_CallByValue ==
    pc \in {"parsed", "eval"} =>
        \A o \in Subterms(program, <<>>) :
            IsApplication(o.term) => CallByValue(o.term)

\* An abstraction applied to a variable was parsed and Eval1 rewrote it, in
\* one step, to a term that is no application of that abstraction.
C23_VariableSubstituted ==
    /\ pc = "eval" /\ steps = 1
    /\ IsApplication(parsed)
    /\ IsLambda(parsed.application_lhs)
    /\ IsVariable(parsed.application_rhs)
    /\ program # parsed

(***************************************************************************)
(* Shifting, substitution and cloning.                                     *)
(***************************************************************************)
\* shift(d, c, t): d added to every variable of t whose index is at least c,
\* the cutoff growing by one under each binder.
RECURSIVE shift(_, _, _)
shift(d, c, t) ==
    CASE IsVariable(t) ->
           IF t.de_bruijn_idx >= c THEN [t EXCEPT !.de_bruijn_idx = @ + d] ELSE t
      [] IsLambda(t) -> [t EXCEPT !.lambda_body = shift(d, c + 1, @)]
      [] IsApplication(t) ->
           [t EXCEPT !.application_lhs = shift(d, c, @),
                     !.application_rhs = shift(d, c, @)]
      [] IsIf(t) ->
           [t EXCEPT !.if_condition = shift(d, c, @), !.if_then = shift(d, c, @),
                     !.if_else = shift(d, c, @)]
      [] IsSucc(t) \/ IsPred(t) \/ IsIsZero(t) ->
           [t EXCEPT !.unary_op_arg = shift(d, c, @)]
      [] t.tag \in {"ref", "deref"} -> [t EXCEPT !.ref_term = shift(d, c, @)]
      [] t.tag \in {"assignment", "sequence"} ->
           [t EXCEPT !.lhs = shift(d, c, @), !.rhs = shift(d, c, @)]
      [] t.tag = "let" ->
           [t EXCEPT !.let_bound_term = shift(d, c, @),
                     !.let_body_term = shift(d, c + 1, @)]
      [] OTHER -> t

\* subst(j, s, t), `depth` binders having been crossed: every variable of
\* index j + depth replaced by shift(depth, 0, s).
RECURSIVE substUnder(_, _, _, _)
substUnder(j, s, depth, t) ==
    CASE IsVariable(t) ->
           IF t.de_bruijn_idx = j + depth THEN shift(depth, 0, s) ELSE t
      [] IsLambda(t) -> [t EXCEPT !.lambda_body = substUnder(j, s, depth + 1, @)]
      [] IsApplication(t) ->
           [t EXCEPT !.application_lhs = substUnder(j, s, depth, @),
                     !.application_rhs = substUnder(j, s, depth, @)]
      [] IsIf(t) ->
           [t EXCEPT !.if_condition = substUnder(j, s, depth, @),
                     !.if_then = substUnder(j, s, depth, @),
                     !.if_else = substUnder(j, s, depth, @)]
      [] IsSucc(t) \/ IsPred(t) \/ IsIsZero(t) ->
           [t EXCEPT !.unary_op_arg = substUnder(j, s, depth, @)]
      [] t.tag \in {"ref", "deref"} ->
           [t EXCEPT !.ref_term = substUnder(j, s, depth, @)]
      [] t.tag \in {"assignment", "sequence"} ->
           [t EXCEPT !.lhs = substUnder(j, s, depth, @),
                     !.rhs = substUnder(j, s, depth, @)]
      [] t.tag = "let" ->
           [t EXCEPT !.let_bound_term = substUnder(j, s, depth, @),
                     !.let_body_term = substUnder(j, s, depth + 1, @)]
      [] OTHER -> t

subst(j, s, t) == substUnder(j, s, 0, t)

\* The subterms of the term ParseProgram returned.
ParsedSubterms == {o.term : o \in Subterms(parsed, <<>>)}

\* C24: Term::Shift(d) adds d to the index of every variable occurrence of
\* the term whose index is at least the number of binders crossed between
\* the root of the term and the occurrence, and changes no other index,
\* under every term variant (abstraction, application, conditional, succ,
\* pred, iszero).
C24_ShiftEveryVariant ==
    pc \in {"parsed", "eval", "done", "threw"} =>
        \A t \in ParsedSubterms, d \in {-1, 1} :
            Shift(t, d) = Done(shift(d, 0, t))

\* `(l x:Bool. if y then x else x) true` took its step: the body, in which
\* the free variable y stands inside a conditional, was shifted down.
C24_ConditionalShifted ==
    /\ pc = "eval" /\ steps = 1
    /\ IsApplication(parsed) /\ IsLambda(parsed.application_lhs)
    /\ IsIf(parsed.application_lhs.lambda_body)
    /\ IsVariable(parsed.application_lhs.lambda_body.if_condition)
    /\ parsed.application_lhs.lambda_body.if_condition.de_bruijn_idx > 0
    /\ IsIf(program)

\* C25: the beta step computes the reference substitution: for every
\* abstraction body and value s, open terms with free variables inside
\* conditionals and succ, pred, iszero included, the term that replaces
\* `(l x:T. body) s` is shift(-1, 0, subst(0, shift(1, 0, s), body)).
C25_BetaIsSubstitution ==
    pc \in {"parsed", "eval"} =>
        \A o \in Subterms(program, <<>>) :
            (/\ IsApplication(o.term)
             /\ IsLambda(o.term.application_lhs)
             /\ IsSpecValue(o.term.application_rhs)) =>
                BetaStep(o.term) =
                    Done(shift(-1, 0, subst(0, shift(1, 0, o.term.application_rhs),
                                            o.term.application_lhs.lambda_body)))

\* `(l x:Nat. succ y) 0` took its step: the body, an open term with its free
\* variable under succ, replaced the application.
C25_OpenBodyReduced ==
    /\ pc = "eval" /\ steps = 1
    /\ IsApplication(parsed) /\ IsLambda(parsed.application_lhs)
    /\ IsSucc(parsed.application_lhs.lambda_body)
    /\ IsVariable(parsed.application_lhs.lambda_body.unary_op_arg)
    /\ IsConstantZero(parsed.application_rhs)
    /\ IsSucc(program)

\* C26: Term::Clone is defined for every valid term and copies it by
\* recursion in every variant: for every term t for which IsInvalid() is
\* false, t.Clone() returns without throwing a term equal to t under
\* operator== and of the variant of t.
C26_CloneEveryVariant ==
    pc \in {"parsed", "eval", "done", "threw"} =>
        \A t \in ParsedSubterms :
            ~IsInvalid(t) =>
                /\ ~IsThrow(Clone(t))
                /\ TermEq(Clone(t), t)
                /\ Clone(t).tag = t.tag

\* An abstraction whose body is a conditional was the argument of a beta
\* step: Clone was called on it, and std::logic_error left Eval1.
C26_ConditionalCloned ==
    /\ pc = "threw"
    /\ IsApplication(parsed) /\ IsLambda(parsed.application_lhs)
    /\ IsLambda(parsed.application_rhs)
    /\ IsIf(parsed.application_rhs.lambda_body)
    /\ IsThrow(Clone(parsed.application_rhs))

(***************************************************************************)
(* Constants followed by a term.                                           *)
(***************************************************************************)
ConstantWords == {"true", "false", "0"}

\* The words a term that is neither a variable nor a constant starts with.
TermStarters == {"l", "if", "succ", "pred", "iszero"}

\* The constants among the tokens, and a constant directly before a term.
ConstantTokens(tokens) == {i \in 1..Len(tokens) : tokens[i] \in ConstantWords}

ConstantBeforeTerm(tokens) ==
    \E i \in ConstantTokens(tokens) :
        i < Len(tokens) /\ tokens[i + 1] \in TermStarters

\* The number of constants in a term.
RECURSIVE ConstantsIn(_)
ConstantsIn(term) ==
    CASE IsTrue(term) \/ IsFalse(term) \/ IsConstantZero(term) -> 1
      [] IsLambda(term) -> ConstantsIn(term.lambda_body)
      [] IsApplication(term) ->
           ConstantsIn(term.application_lhs) + ConstantsIn(term.application_rhs)
      [] IsIf(term) ->
           ConstantsIn(term.if_condition) + ConstantsIn(term.if_then)
               + ConstantsIn(term.if_else)
      [] IsSucc(term) \/ IsPred(term) \/ IsIsZero(term) ->
           ConstantsIn(term.unary_op_arg)
      [] OTHER -> 0

\* The function part of the function part ... of an application.
RECURSIVE FunctionPart(_)
FunctionPart(term) ==
    IF IsApplication(term) THEN FunctionPart(term.application_lhs) ELSE term

ConstantOf(word) ==
    CASE word = "true" -> True
      [] word = "false" -> False
      [] word = "0" -> Zero

\* C27: ParseProgram never silently drops a term of the input: when a
\* constant is directly followed by a term that starts with l, if, succ,
\* pred or iszero, the result is an application whose function part is that
\* constant, or a parse error; the constant never disappears from the
\* returned term.
C27_ConstantNotDropped ==
    (pc = "parsed" /\ ConstantBeforeTerm(token_strings_)) =>
        /\ ConstantsIn(parsed) = Cardinality(ConstantTokens(token_strings_))
        /\ token_strings_[1] \in ConstantWords =>
              /\ IsApplication(parsed)
              /\ FunctionPart(parsed) = ConstantOf(token_strings_[1])

\* A constant directly followed by an abstraction was parsed without an
\* exception.
C27_ConstantThenLambda ==
    /\ pc = "parsed"
    /\ Len(token_strings_) > 2
    /\ token_strings_[1] \in ConstantWords
    /\ token_strings_[2] = "l"

(***************************************************************************)
(* Ill-typed subterms.                                                     *)
(***************************************************************************)
\* IllTyped, or a function type with IllTyped in a result position.
RECURSIVE IllTypedResult(_)
IllTypedResult(type) ==
    \/ type.category = "ILL"
    \/ type.category = "FUNCTION" /\ IllTypedResult(type.rhs)

\* TypeOf gives IllTyped to a subterm of the parsed term, in its context.
IllTypedSubterm ==
    \E o \in Subterms(parsed, <<>>) : TypeOfIn(o.ctx, o.term) = TypeIllTyped

\* C28: ill-typedness of a subterm is never hidden by the typing rules: for
\* every term t returned by ParseProgram, if TypeOf gives IllTyped to some
\* subterm of t in its context, then TypeOf(t) is IllTyped or a function type
\* containing IllTyped in a result position.
C28_IllTypedNotHidden ==
    (pc = "parsed" /\ IllTypedSubterm) => IllTypedResult(TypeOf(parsed))

\* An abstraction was parsed whose body TypeOf gives IllTyped: its type is a
\* function type to IllTyped.
C28_IllTypedBody ==
    /\ pc = "parsed"
    /\ IsLambda(parsed)
    /\ TypeOfIn(AddBinding(<<>>, parsed.lambda_arg_name, parsed.lambda_arg_type),
                parsed.lambda_body) = TypeIllTyped
    /\ IsFunction(TypeOf(parsed))
    /\ TypeOf(parsed).rhs = TypeIllTyped

(***************************************************************************)
(* Termination.                                                            *)
(***************************************************************************)
\* C29: Interpret terminates on every term ParseProgram returns, well typed
\* or not: the Eval loop reaches a term to which no rule applies after
\* finitely many steps.  Eval1 being a function of the term, the loop ends
\* only if no call of Eval1 gives back the term it was given.
C29_EvalTerminates ==
    [][(pc \in {"parsed", "eval"} /\ pc' = "eval") => program' # program]_vars

\* Eval1 was called twice or more and the program is again a term equal,
\* under operator==, to the parsed one.
C29_SameTermAgain ==
    /\ pc = "eval"
    /\ steps >= 2
    /\ TermEq(program, parsed)

(***************************************************************************)
(* The IllTyped sentinel.                                                  *)
(***************************************************************************)
\* C30: Type::IsIllTyped() is true for the IllTyped sentinel and false for
\* every other type: for every type T obtained from the factories,
\* T.IsIllTyped() holds exactly when T is Type::IllTyped(), so it is false
\* for Bool, Nat, function and record types.
C30_IsIllTypedOfSentinel ==
    \A i \in 1..Len(calls) :
        IsIllTyped(Object(calls[i].instance))
            <=> calls[i].instance = Static("IllTyped")

\* Type::IllTyped() and Type::Bool() were both called.
C30_SentinelAndBool ==
    /\ \E i \in 1..Len(calls) : calls[i].factory = "IllTyped"
    /\ \E i \in 1..Len(calls) : calls[i].factory = "Bool"

(***************************************************************************)
(* The store.  The terms of references, which the code of this chapter     *)
(* lacks: `ref t`, `!t`, `l := r`, `a; b`, `let x = b in body`, `unit` and  *)
(* the locations; and the single-step rules of the specification on them.  *)
(***************************************************************************)
TermRef(term) == [tag |-> "ref", ref_term |-> term]

TermDeref(term) == [tag |-> "deref", ref_term |-> term]

TermAssignment(lhs, rhs) == [tag |-> "assignment", lhs |-> lhs, rhs |-> rhs]

TermSequence(lhs, rhs) == [tag |-> "sequence", lhs |-> lhs, rhs |-> rhs]

TermLet(name, bound, body) ==
    [tag |-> "let", let_binding_name |-> name, let_bound_term |-> bound,
     let_body_term |-> body]

TermUnit == [tag |-> "unit"]

TermLocation(location) == [tag |-> "location", location |-> location]

\* succ of, pred of, iszero of, if of: the terms of this chapter, built.
SuccOf(term) == [Succ EXCEPT !.unary_op_arg = term]

PredOf(term) == [Pred EXCEPT !.unary_op_arg = term]

IfOf(condition, then, else) ==
    [If EXCEPT !.if_condition = condition, !.if_then = then, !.if_else = else]

\* The values: abstractions, true, false, unit, numeric values, locations.
IsStoreValue(term) ==
    IsSpecValue(term) \/ term.tag = "unit" \/ term.tag = "location"

\* The outcome of a step: the term, the store, what was done to the store
\* (nothing, or one allocation, read or write), and whether a rule applied.
Stepped(term, cells, log) ==
    [t |-> term, store |-> cells, log |-> log, stepped |-> TRUE]

NoRule(term, cells) == [t |-> term, store |-> cells, log |-> <<>>, stepped |-> FALSE]

Access(rule, location, value) ==
    <<[rule |-> rule, location |-> location, value |-> value]>>

\* The step `inner` of the part `field` of `term`, as a step of `term`.
StepIn(term, field, inner) == [inner EXCEPT !.t = [term EXCEPT ![field] = inner.t]]

\* ref v: a fresh location, the next in allocation order.
Allocate(cells, value) ==
    Stepped(TermLocation(Len(cells)), Append(cells, value),
            Access("ref", Len(cells), value))

\* !Location(l)
Read(term, cells, location) ==
    IF location < Len(cells)
      THEN Stepped(cells[location + 1], cells,
                   Access("deref", location, cells[location + 1]))
      ELSE NoRule(term, cells)

\* Location(l) := v, were every cell given the value.
WriteEveryCell(term, cells, location, value) ==
    IF location < Len(cells)
      THEN Stepped(TermUnit, [i \in 1..Len(cells) |-> value],
                   Access("assignment", location, value))
      ELSE NoRule(term, cells)

\* Location(l) := v
Write(term, cells, location, value) ==
    IF location < Len(cells)
      THEN Stepped(TermUnit, [cells EXCEPT ![location + 1] = value],
                   Access("assignment", location, value))
      ELSE NoRule(term, cells)

\* The single-step function with the store (rules 4 to 7 and 10 to 14).
RECURSIVE StoreEval1(_, _)
StoreEval1(term, cells) ==
    CASE term.tag = "ref" ->
           IF IsStoreValue(term.ref_term) THEN Allocate(cells, term.ref_term)
           ELSE StepIn(term, "ref_term", StoreEval1(term.ref_term, cells))
      [] term.tag = "deref" ->
           IF term.ref_term.tag = "location"
             THEN Read(term, cells, term.ref_term.location)
             ELSE StepIn(term, "ref_term", StoreEval1(term.ref_term, cells))
      [] term.tag = "assignment" ->
           IF term.lhs.tag = "location" /\ IsStoreValue(term.rhs)
             THEN Write(term, cells, term.lhs.location, term.rhs)
           ELSE IF ~IsStoreValue(term.rhs)
             THEN StepIn(term, "rhs", StoreEval1(term.rhs, cells))
           ELSE StepIn(term, "lhs", StoreEval1(term.lhs, cells))
      [] term.tag = "sequence" ->
           IF term.lhs.tag = "unit" THEN Stepped(term.rhs, cells, <<>>)
           ELSE IF IsStoreValue(term.lhs) THEN NoRule(term, cells)
           ELSE StepIn(term, "lhs", StoreEval1(term.lhs, cells))
      [] term.tag = "let" ->
           IF IsStoreValue(term.let_bound_term)
             THEN Stepped(shift(-1, 0, subst(0, shift(1, 0, term.let_bound_term),
                                             term.let_body_term)),
                          cells, <<>>)
             ELSE StepIn(term, "let_bound_term",
                         StoreEval1(term.let_bound_term, cells))
      [] IsIf(term) ->
           IF IsTrue(term.if_condition) THEN Stepped(term.if_then, cells, <<>>)
           ELSE IF IsFalse(term.if_condition) THEN Stepped(term.if_else, cells, <<>>)
           ELSE StepIn(term, "if_condition", StoreEval1(term.if_condition, cells))
      [] IsSucc(term) ->
           StepIn(term, "unary_op_arg", StoreEval1(term.unary_op_arg, cells))
      [] IsPred(term) ->
           IF IsConstantZero(term.unary_op_arg) THEN Stepped(Zero, cells, <<>>)
           ELSE IF IsNatValue(term.unary_op_arg)
             THEN Stepped(term.unary_op_arg.unary_op_arg, cells, <<>>)
           ELSE StepIn(term, "unary_op_arg", StoreEval1(term.unary_op_arg, cells))
      [] IsIsZero(term) ->
           IF IsConstantZero(term.unary_op_arg) THEN Stepped(True, cells, <<>>)
           ELSE IF IsNatValue(term.unary_op_arg) THEN Stepped(False, cells, <<>>)
           ELSE StepIn(term, "unary_op_arg", StoreEval1(term.unary_op_arg, cells))
      [] OTHER -> NoRule(term, cells)

\* Programs with references: the variable of index 0 is the innermost let.
Cell(i) == Variable("x", i)

\* Things done to the cell the variable of index i names, each of type Unit.
Updates(i) ==
    { TermAssignment(Cell(i), SuccOf(TermDeref(Cell(i)))),
      TermAssignment(Cell(i), PredOf(TermDeref(Cell(i)))),
      TermAssignment(Cell(i), Zero) }

\* At most MaxUpdates updates in sequence, and then `last`.
RECURSIVE UpdatesThen(_, _, _)
UpdatesThen(n, cells, last) ==
    IF n = 0 THEN {last}
    ELSE UpdatesThen(n - 1, cells, last) \cup
         {TermSequence(update, rest) :
             update \in UNION {Updates(i) : i \in cells},
             rest \in UpdatesThen(n - 1, cells, last)}

StorePrograms ==
    \* ref of a value or of a term that steps (l[0] in the tests)
    {TermRef(t) : t \in {Zero, True, SuccOf(Zero), PredOf(SuccOf(Zero)),
                         IfOf(True, Zero, SuccOf(Zero))}}
    \* let x = ref 0 in (updates; !x)
    \cup {TermLet("x", TermRef(Zero), body) :
             body \in UpdatesThen(MaxUpdates, {0}, TermDeref(Cell(0)))}
    \* let x = ref true in let y = ref 0 in (updates of x and y; !y)
    \cup {TermLet("x", TermRef(SuccOf(Zero)), TermLet("y", TermRef(Zero), body)) :
             body \in UpdatesThen(1, {0, 1}, TermDeref(Cell(1)))
                      \cup UpdatesThen(1, {0, 1}, TermDeref(Cell(0)))}
    \cup {TermLet("x", TermRef(True), TermLet("y", TermRef(Zero), False))}

InitStore ==
    /\ token_strings_ = <<>>
    /\ current_token_ = 0
    /\ term_stack = <<EmptyTerm>>
    /\ stack_size_on_open_paren = <<>>
    /\ bound_variables = <<>>
    /\ balance_parens = 0
    /\ pc = "parsed"
    /\ parsed \in StorePrograms
    /\ program = parsed
    /\ steps = 0
    /\ result = NoResult
    /\ first = NoFirst
    /\ lexer_calls = <<>>
    /\ store = <<>>
    /\ store_log = <<>>
    /\ InitPools

StoreEvalTo(step) ==
    /\ program' = step.t
    /\ store' = step.store
    /\ store_log' = store_log \o step.log
    /\ steps' = steps + 1

\* One step of the evaluator on the program and the store.
StoreStep ==
    /\ pc \in {"parsed", "eval"}
    /\ steps < MaxStoreSteps
    /\ StoreEval1(program, store).stepped
    /\ StoreEvalTo(StoreEval1(program, store))
    /\ pc' = "eval"
    /\ UNCHANGED <<token_strings_, current_token_, parser_vars, parsed, result,
                   history_vars, pool_vars>>

\* No rule applies: the evaluation ends with the term as it is.
StoreDone ==
    /\ pc \in {"parsed", "eval"}
    /\ ~StoreEval1(program, store).stepped
    /\ pc' = "done"
    /\ UNCHANGED <<token_strings_, current_token_, parser_vars, parsed, program,
                   steps, result, history_vars, store_vars, pool_vars>>

NextStore == StoreStep \/ StoreDone

SpecStore == InitStore /\ [][NextStore]_vars

\* The allocations of a log, and the value last put in a cell: by its
\* allocation or by the latest assignment to it.
Allocations(log) == {i \in 1..Len(log) : log[i].rule = "ref"}

Puts(log, location) ==
    {i \in 1..Len(log) : /\ log[i].rule \in {"ref", "assignment"}
                         /\ log[i].location = location}

LastPut(log, location) ==
    log[CHOOSE i \in Puts(log, location) : \A j \in Puts(log, location) : j <= i].value

\* What the step just taken did to the store, if anything.
Accessed(rule) ==
    /\ Len(store_log') = Len(store_log) + 1
    /\ store_log'[Len(store_log')].rule = rule

Latest == store_log'[Len(store_log')]

\* No cell is removed or moved; a cell changes only by an assignment to it.
CellsKept ==
    /\ Len(store') >= Len(store)
    /\ \A i \in 1..Len(store) :
          store'[i] # store[i] =>
              /\ Accessed("assignment")
              /\ Latest.location = i - 1
              /\ store'[i] = Latest.value

\* The k-th allocation takes location k, the first one not in the store.
FreshLocation ==
    Accessed("ref") =>
        /\ Latest.location = Cardinality(Allocations(store_log))
        /\ Latest.location = Len(store)
        /\ store' = Append(store, Latest.value)

\* ref, and ref alone, makes the store longer.
GrowsByRef == Len(store') > Len(store) => Accessed("ref")

\* A read yields the value last put in the cell.
ReadsLastPut ==
    Accessed("deref") =>
        /\ Puts(store_log, Latest.location) # {}
        /\ Latest.value = LastPut(store_log, Latest.location)
        /\ store' = store

\* let x = ref 0 in ((x := succ (!x)); (x := succ (!x)); !x)
TwoIncrements ==
    TermLet("x", TermRef(Zero),
            TermSequence(TermAssignment(Cell(0), SuccOf(TermDeref(Cell(0)))),
                TermSequence(TermAssignment(Cell(0), SuccOf(TermDeref(Cell(0)))),
                             TermDeref(Cell(0)))))

\* C22: the store is append-only with fresh locations: in every evaluation
\* the k-th `ref v` step (counting from 0) allocates location k, which was
\* not in the store before, no step removes a cell or changes the location
\* of one, `Location(l) := v` changes only cell l, and `!Location(l)` yields
\* the value most recently stored in cell l; so the program with two
\* increments yields 2 and `ref 0` yields l[0].
C22_StoreAppendOnly ==
    /\ [][CellsKept /\ FreshLocation /\ GrowsByRef /\ ReadsLastPut]_vars
    /\ []((pc = "done" /\ parsed = TwoIncrements) => program = SuccOf(SuccOf(Zero)))
    /\ []((pc = "done" /\ parsed = TermRef(Zero)) => program = TermLocation(0))

\* A program with two cells ended: both were allocated, one was assigned to
\* and one was read.
C22_TwoCellsUsed ==
    /\ pc = "done"
    /\ Len(store) = 2
    /\ \E i \in 1..Len(store_log) : store_log[i].rule = "assignment"
    /\ \E i \in 1..Len(store_log) : store_log[i].rule = "deref"
    /\ IsNatValue(program)

====
